---- MODULE Spec2Model ----
(***************************************************************************)
(* A model of dibi: the sanitized-string type (CleanSQL), the Filter       *)
(* algebra and its rendering, the Table/DB schema objects, and the         *)
(* DB-API driver with its transaction scopes, over an abstract engine.     *)
(*                                                                         *)
(* Text is a sequence of atoms (one-character strings for caller data,     *)
(* whole words for the constant fragments of the driver's templates).      *)
(* A Python value is a record [ty, i, s, clean]: ty is "none", "int" or    *)
(* "str"; clean says the value is an instance of CleanSQL.                 *)
(***************************************************************************)
EXTENDS Integers, Sequences, FiniteSets, TLC

VARIABLES
    sqlCall,            \* the CleanSQL / operator call under study
    sqlOut,             \* its outcome: a value or a raised error
    heap,               \* the Table objects created so far, by object id
    dbTables,           \* DB.tables: the Collection of Tables, by name
    engine,             \* the catalog and rows of the engine
    transaction_depth,  \* DbapiDriver.transaction_depth
    last_statement,     \* DbapiDriver.last_statement
    last_values,        \* DbapiDriver.last_values
    calls,              \* connection calls made by the last operation
    raised,             \* the error the last operation raised, or "none"
    lastOp,             \* the last operation: its name and its receiver
    selection,          \* the Selection made by the last select()
    paramstyle,         \* dbapi_module.paramstyle
    flt,                \* the Filter the caller is holding
    fetched,            \* rows the Selection's cursor has handed out
    yielded,            \* rows iterating the Selection has yielded so far
    returned,           \* what the last Selection.one() returned
    bodyError,          \* the error raised inside the last scope left:
                        \* a caller's transaction() block, or execute()
    result              \* what the last call that returns objects
                        \* returned, as a sequence of them

sqlVars == <<sqlCall, sqlOut>>

objVars == <<heap, dbTables>>

curVars == <<fetched, yielded, returned>>

vars == <<sqlCall, sqlOut, heap, dbTables, engine, transaction_depth,
          last_statement, last_values, calls, raised, lastOp, selection,
          paramstyle, flt, fetched, yielded, returned, bodyError, result>>

----------------------------------------------------------------------------
(* Bounds of the model *)

MaxArgs == 2            \* longest argument list given to a CleanSQL call

----------------------------------------------------------------------------
(* Python values and outcomes *)

NoneV == [ty |-> "none", i |-> 0, s |-> <<>>, clean |-> FALSE]

IntV(n) == [ty |-> "int", i |-> n, s |-> <<>>, clean |-> FALSE]

StrV(s) == [ty |-> "str", i |-> 0, s |-> s, clean |-> FALSE]

Ok(v) == [ok |-> TRUE, val |-> v, err |-> "none"]

Err(e) == [ok |-> FALSE, val |-> NoneV, err |-> e]

NoCall == [op |-> "none", self |-> NoneV, joiner |-> NoneV,
           args |-> <<>>, kwargs |-> <<>>]

Digit == <<"1", "2", "3", "4", "5", "6", "7", "8", "9">>

RECURSIVE IntStr(_)
\* str(n) for n >= 0, one atom per digit
IntStr(n) ==
    IF n < 10 THEN <<IF n = 0 THEN "0" ELSE Digit[n]>>
    ELSE IntStr(n \div 10) \o <<IF n % 10 = 0 THEN "0" ELSE Digit[n % 10]>>

\* str(v)
PyStr(v) ==
    CASE v.ty = "str" -> v.s
      [] v.ty = "int" -> IntStr(v.i)
      [] OTHER -> <<"None">>

\* bool(v): None, 0 and the empty string are false
Truthy(v) ==
    CASE v.ty = "str" -> v.s # <<>>
      [] v.ty = "int" -> v.i # 0
      [] OTHER -> FALSE

IsClean(v) == v.clean

\* CleanSQL(original): str.__new__(cls, sanitize(original)), sanitize = identity
C(v) == [ty |-> "str", i |-> 0, s |-> PyStr(v), clean |-> TRUE]

\* C("...") of a constant fragment of the source, given as atoms
CS(s) == C(StrV(s))

RECURSIVE StrJoin(_, _)
\* str.join(sep, values) on the texts of the values
StrJoin(sep, values) ==
    IF values = <<>> THEN <<>>
    ELSE IF Len(values) = 1 THEN values[1].s
    ELSE values[1].s \o sep \o StrJoin(sep, Tail(values))

AutoField == "{}"

IndexFields == <<"{0}", "{1}">>

IsIndexField(a) == \E k \in 1..Len(IndexFields) : IndexFields[k] = a

IndexOf(a) == CHOOSE k \in 1..Len(IndexFields) : IndexFields[k] = a

KeyFields == {"{k}", "{w}"}

\* the value of keyword `key` in kwargs, a sequence of [key, val]
HasKey(kwargs, key) == \E k \in 1..Len(kwargs) : kwargs[k].key = key

KeyVal(kwargs, key) ==
    kwargs[CHOOSE k \in 1..Len(kwargs) : kwargs[k].key = key].val

RECURSIVE StrFormatFrom(_, _, _, _)
\* str.format(tmpl, *args, **kwargs) from the auto-numbered field `n` on:
\* <<>> stands for a raised IndexError/KeyError, else <<text>>
StrFormatFrom(tmpl, args, kwargs, n) ==
    IF tmpl = <<>> THEN <<(<<>>)>>
    ELSE LET a == Head(tmpl)
             isAuto == a = AutoField
             field == IF isAuto THEN n
                      ELSE IF IsIndexField(a) THEN IndexOf(a) ELSE 0
             isKey == a \in KeyFields
             rest == StrFormatFrom(Tail(tmpl), args, kwargs,
                                   IF isAuto THEN n + 1 ELSE n)
         IN  IF rest = <<>> THEN <<>>
             ELSE IF isKey
                  THEN IF HasKey(kwargs, a)
                       THEN <<PyStr(KeyVal(kwargs, a)) \o rest[1]>>
                       ELSE <<>>
             ELSE IF field = 0 THEN <<(<<a>> \o rest[1])>>
             ELSE IF field > Len(args) THEN <<>>
             ELSE <<PyStr(args[field]) \o rest[1]>>

StrFormat(tmpl, args, kwargs) == StrFormatFrom(tmpl, args, kwargs, 1)

RECURSIVE StrReplace(_, _, _)
\* str.replace(s, find, new) for a one-atom `find`
StrReplace(s, find, new) ==
    IF s = <<>> THEN <<>>
    ELSE (IF Head(s) = find THEN new ELSE <<Head(s)>>)
         \o StrReplace(Tail(s), find, new)

RECURSIVE StrMul(_, _)
StrMul(s, n) == IF n <= 0 THEN <<>> ELSE s \o StrMul(s, n - 1)

\* the values of `seq` that satisfy Truthy, in order
RECURSIVE Truthies(_)
Truthies(seq) ==
    IF seq = <<>> THEN <<>>
    ELSE (IF Truthy(Head(seq)) THEN <<Head(seq)>> ELSE <<>>)
         \o Truthies(Tail(seq))

AllClean(values) == \A k \in 1..Len(values) : IsClean(values[k])

----------------------------------------------------------------------------
(* class CleanSQL *)

\* a join that does not test its values
JoinNoCheck(self, values) == Ok(CS(StrJoin(self.s, values)))

\* CleanSQL.join(self, values)
Join(self, values) ==
    IF ~AllClean(values) THEN Err("TypeError")
    ELSE Ok(CS(StrJoin(self.s, values)))

\* CleanSQL.join_words(self, *words)
JoinWords(self, words) == Join(self, Truthies(words))

\* the outcome of str.format wrapped by self.__class__(...)
Formatted(tmpl, args, kwargs) ==
    LET Wrapped(r) == IF r = <<>> THEN Err("IndexError") ELSE Ok(CS(r[1]))
    IN  Wrapped(StrFormat(tmpl, args, kwargs))

\* CleanSQL.join_format(self, joiner, *iterators), values the chained iterators
JoinFormat(self, joiner, values) ==
    IF ~IsClean(joiner) THEN Err("TypeError")
    ELSE IF ~AllClean(values) THEN Err("TypeError")
    ELSE LET Inserted(joined) ==
                    IF ~joined.ok THEN joined
                    ELSE Formatted(self.s, <<joined.val>>, <<>>)
         IN  Inserted(Join(joiner, values))

\* CleanSQL.format(self, *args, **kwargs)
Format(self, args, kwargs) ==
    IF ~AllClean(args) THEN Err("TypeError")
    ELSE IF \E k \in 1..Len(kwargs) : ~IsClean(kwargs[k].val)
         THEN Err("TypeError")
    ELSE Formatted(self.s, args, kwargs)

\* CleanSQL.replace(self, find, new)
Replace(self, find, new) == CS(StrReplace(self.s, find.s[1], new.s))

\* CleanSQL.__mul__(self, other)
Mul(self, n) == CS(StrMul(self.s, n))

----------------------------------------------------------------------------
(* Filter trees (dibi/common.py).  A node is a Column, a Filter or a plain  *)
(* Python value used as an argument; all three share one record shape.     *)
(* A Table is referred to by its object id `tid` and carries its name.     *)

NoName == <<>>

\* a literal argument of a Filter
LiteralNode(v) ==
    [kind |-> "literal", op |-> "none", args |-> <<>>, tables |-> {},
     tid |-> 0, tname |-> NoName, name |-> NoName, val |-> v]

\* Filter.__init__ for a Column: Filter.__init__(self, db, 'ID', self), so
\* tables = {self.table}
ColumnNode(tid, tname, cname) ==
    [kind |-> "column", op |-> "ID", args |-> <<>>, tables |-> {tid},
     tid |-> tid, tname |-> tname, name |-> cname, val |-> NoneV]

\* the tables of the Column objects among the arguments themselves
DirectTables(args) ==
    {args[k].tid : k \in {j \in 1..Len(args) : args[j].kind = "column"}}

RECURSIVE TreeTables(_)
\* the tables of the Columns anywhere below the arguments
TreeTables(args) ==
    UNION {IF args[k].kind = "column" THEN {args[k].tid}
           ELSE IF args[k].kind = "filter" THEN TreeTables(args[k].args)
           ELSE {} : k \in 1..Len(args)}

\* Filter.__init__(self, db, operator, *arguments)
FilterNode(op, args) ==
    [kind |-> "filter", op |-> op, args |-> args,
     tables |-> DirectTables(args),
     tid |-> 0, tname |-> NoName, name |-> NoName, val |-> NoneV]

----------------------------------------------------------------------------
(* class DbapiDriver: syntax cleansers (SQLite dialect) *)

\* SQLiteDriver.identifier_quote
identifier_quote == CS(<<"\"">>)

\* DbapiDriver.__init__: identifier_quote_escape = identifier_quote * 2
identifier_quote_escape == Mul(identifier_quote, 2)

\* an identifier() that quotes the name as it is
IdentifierUnescaped(name) ==
    Format(CS(<<"{0}", "{1}", "{0}">>), <<identifier_quote, C(StrV(name))>>,
           <<>>).val

\* DbapiDriver.identifier(value)
Identifier(name) ==
    LET nm == Replace(C(StrV(name)), identifier_quote,
                      identifier_quote_escape)
    IN  Format(CS(<<"{0}", "{1}", "{0}">>), <<identifier_quote, nm>>,
               <<>>).val

\* DbapiDriver.literal(value); "other" stands for float, bytes, datetime
Literal(v) ==
    CASE v.ty = "none" -> Ok(CS(<<"NULL">>))
      [] v.ty = "str" ->
            Format(CS(<<"'", "{}", "'">>),
                   <<C(StrV(StrReplace(v.s, "'", <<"'", "'">>)))>>, <<>>)
      [] v.ty = "int" -> Ok(C(v))
      [] OTHER -> Err("TypeError")

\* the format strings of DbapiDriver.operators, with SQLiteDriver's SUM
OperatorString(op) ==
    CASE op = "AND" -> <<"(", "{}", " AND ", "{}", ")">>
      [] op = "OR" -> <<"(", "{}", " OR ", "{}", ")">>
      [] op = "NOT" -> <<"(NOT ", "{}", ")">>
      [] op = "GREATERTHAN" -> <<"(", "{}", " > ", "{}", ")">>
      [] op = "GREATEREQUAL" -> <<"(", "{}", " >= ", "{}", ")">>
      [] op = "LESSTHAN" -> <<"(", "{}", " < ", "{}", ")">>
      [] op = "LESSEQUAL" -> <<"(", "{}", " <= ", "{}", ")">>
      [] op = "ADD" -> <<"(", "{}", " + ", "{}", ")">>
      [] op = "SUBTRACT" -> <<"(", "{}", " - ", "{}", ")">>
      [] op = "MULTIPLY" -> <<"(", "{}", " * ", "{}", ")">>
      [] op = "DIVIDE" -> <<"(", "{}", " / ", "{}", ")">>
      [] op = "NEGATIVE" -> <<"(-", "{}", ")">>
      [] op = "MODULO" -> <<"(", "{}", " % ", "{}", ")">>
      [] op = "LEFTSHIFT" -> <<"(", "{}", " << ", "{}", ")">>
      [] op = "RIGHTSHIFT" -> <<"(", "{}", " >> ", "{}", ")">>
      [] op = "SUM" -> <<"total(", "{}", ")">>
      [] op = "AVERAGE" -> <<"avg(", "{}", ")">>
      [] op = "MAXIMUM" -> <<"max(", "{}", ")">>
      [] op = "MINIMUM" -> <<"min(", "{}", ")">>
      [] op = "COUNT" -> <<"count(", "{}", ")">>

TemplateOperators ==
    {"AND", "OR", "NOT", "GREATERTHAN", "GREATEREQUAL", "LESSTHAN",
     "LESSEQUAL", "ADD", "SUBTRACT", "MULTIPLY", "DIVIDE", "NEGATIVE",
     "MODULO", "LEFTSHIFT", "RIGHTSHIFT", "SUM", "AVERAGE", "MAXIMUM",
     "MINIMUM", "COUNT"}

OperatorNames == TemplateOperators \cup {"EQUAL", "NOTEQUAL"}

\* operator(string)(*args): C(string.format(*args)), a plain str.format
Operator(string, args) == Formatted(string, args, <<>>)

\* 'NULL' in (a, b)
IsNullText(v) == v.ty = "str" /\ v.s = <<"NULL">>

\* an EQUAL that writes = whatever its arguments are
EqualWithoutIs(a, b) ==
    Formatted(<<"(", "{}", "=", "{}", ")">>, <<a, b>>, <<>>)

\* DbapiDriver.operators.EQUAL(a, b): a plain str.format as well
EQUAL(a, b) ==
    IF IsNullText(a) \/ IsNullText(b)
    THEN Formatted(<<"(", "{}", " IS ", "{}", ")">>, <<a, b>>, <<>>)
    ELSE Formatted(<<"(", "{}", "=", "{}", ")">>, <<a, b>>, <<>>)

\* DbapiDriver.operators.NOTEQUAL(a, b)
NOTEQUAL(a, b) ==
    IF IsNullText(a) \/ IsNullText(b)
    THEN Formatted(<<"(", "{}", " IS NOT ", "{}", ")">>, <<a, b>>, <<>>)
    ELSE Formatted(<<"(", "{}", "!=", "{}", ")">>, <<a, b>>, <<>>)

\* getattr(self.operators, name)(*args); a call of EQUAL or NOTEQUAL with
\* other than two arguments is Python's own TypeError
ApplyOperator(op, args) ==
    CASE op \in {"EQUAL", "NOTEQUAL"} ->
            IF Len(args) # 2 THEN Err("TypeError")
            ELSE IF op = "EQUAL" THEN EQUAL(args[1], args[2])
            ELSE NOTEQUAL(args[1], args[2])
      [] op \in TemplateOperators -> Operator(OperatorString(op), args)
      [] OTHER -> Err("AttributeError")

\* the first failed outcome of a sequence of outcomes, if any
FirstError(outs) ==
    outs[CHOOSE k \in 1..Len(outs) :
            ~outs[k].ok /\ \A j \in 1..(k - 1) : outs[j].ok]

RECURSIVE Expression(_)
\* DbapiDriver.expression(value)
Expression(node) ==
    CASE node.kind = "column" ->
            Format(CS(<<"{}", ".", "{}">>),
                   <<Identifier(node.tname), Identifier(node.name)>>, <<>>)
      [] node.kind = "filter" ->
            LET outs == [k \in 1..Len(node.args) |->
                            Expression(node.args[k])]
            IN  IF \E k \in 1..Len(outs) : ~outs[k].ok
                THEN FirstError(outs)
                ELSE ApplyOperator(node.op,
                                   [k \in 1..Len(outs) |-> outs[k].val])
      [] OTHER -> Literal(node.val)

----------------------------------------------------------------------------
(* The engine behind the DB-API connection (SQLite), as far as the driver  *)
(* can observe it.  Its catalog is a sequence of tables in creation order, *)
(* each [name, cols, auto, rows]: cols the column names, auto the name of  *)
(* the INTEGER PRIMARY KEY column (NoName if none), rows a sequence of     *)
(* rows, each a sequence of values aligned with cols.  The engine reads    *)
(* the table and column names out of the quoted identifiers it is sent.    *)

RECURSIVE Undouble(_, _)
\* the text between the delimiters of a quoted identifier, pairs of the
\* quote character read as one
Undouble(s, q) ==
    IF s = <<>> THEN <<>>
    ELSE IF Len(s) >= 2 /\ s[1] = q /\ s[2] = q
         THEN <<q>> \o Undouble(SubSeq(s, 3, Len(s)), q)
    ELSE <<s[1]>> \o Undouble(Tail(s), q)

\* the name the engine reads from a quoted identifier
Unquote(ident) ==
    Undouble(SubSeq(ident.s, 2, Len(ident.s) - 1), identifier_quote.s[1])

\* position of the table called `name` in the catalog, 0 if absent
EngFind(eng, name) ==
    IF \E k \in 1..Len(eng) : eng[k].name = name
    THEN CHOOSE k \in 1..Len(eng) : eng[k].name = name
    ELSE 0

\* position of `x` in the sequence `seq`, 0 if absent
IndexIn(seq, x) ==
    IF \E k \in 1..Len(seq) : seq[k] = x
    THEN CHOOSE k \in 1..Len(seq) :
            seq[k] = x /\ \A j \in 1..(k - 1) : seq[j] # x
    ELSE 0

RemoveAt(seq, k) == SubSeq(seq, 1, k - 1) \o SubSeq(seq, k + 1, Len(seq))

RECURSIVE SelectSeq2(_, _)
\* the members of `seq` whose flag in `keep` is TRUE, in order
SelectSeq2(seq, keep) ==
    IF seq = <<>> THEN <<>>
    ELSE (IF Head(keep) THEN <<Head(seq)>> ELSE <<>>)
         \o SelectSeq2(Tail(seq), Tail(keep))

EngOk(eng, ret) == [eng |-> eng, error |-> "none", ret |-> ret]

EngError(eng, e) == [eng |-> eng, error |-> e, ret |-> <<>>]

\* the errors sqlite3 raises, by the start or end of their message
ErrNoSuchTable == "sqlite3.OperationalError: no such table: "

ErrSyntax == "sqlite3.OperationalError: : syntax error"

ErrExists == "sqlite3.OperationalError: table \" \" already exists"

ErrNoDatabase == "sqlite3.OperationalError: unable to open database file"

ErrOther == "sqlite3.OperationalError"

\* SQL comparison and logic on values; NULL is NoneV, truth is IntV(1)
SqlBool(b) == IF b THEN IntV(1) ELSE IntV(0)

SqlIs(a, b) == SqlBool(a.ty = b.ty /\ a.i = b.i /\ a.s = b.s)

SqlEq(a, b) ==
    IF a.ty = "none" \/ b.ty = "none" THEN NoneV ELSE SqlIs(a, b)

SqlNot(a) == IF a.ty = "none" THEN NoneV ELSE SqlBool(a.i = 0)

\* integers sort before text; text is compared by length here
SqlLt(a, b) ==
    IF a.ty = "none" \/ b.ty = "none" THEN NoneV
    ELSE IF a.ty = "int" /\ b.ty = "int" THEN SqlBool(a.i < b.i)
    ELSE IF a.ty = "int" THEN IntV(1)
    ELSE IF b.ty = "int" THEN IntV(0)
    ELSE SqlBool(Len(a.s) < Len(b.s))

SqlAnd(a, b) ==
    IF (a.ty = "int" /\ a.i = 0) \/ (b.ty = "int" /\ b.i = 0) THEN IntV(0)
    ELSE IF a.ty = "none" \/ b.ty = "none" THEN NoneV
    ELSE IntV(1)

SqlOr(a, b) ==
    IF (a.ty = "int" /\ a.i # 0) \/ (b.ty = "int" /\ b.i # 0) THEN IntV(1)
    ELSE IF a.ty = "none" \/ b.ty = "none" THEN NoneV
    ELSE IntV(0)

\* a WHERE clause keeps the rows whose value is a non-zero number
SqlTrue(v) == v.ty = "int" /\ v.i # 0

IsNoneLiteral(node) == node.kind = "literal" /\ node.val.ty = "none"

RECURSIVE Resolvable(_, _)
\* every column of the expression names a column of a table of `from`,
\* a sequence of catalog tables
Resolvable(node, from) ==
    CASE node.kind = "column" ->
            \E k \in 1..Len(from) :
                /\ from[k].name = node.tname
                /\ IndexIn(from[k].cols, node.name) # 0
      [] node.kind = "filter" ->
            \A k \in 1..Len(node.args) : Resolvable(node.args[k], from)
      [] OTHER -> TRUE

RECURSIVE Eval(_, _, _)
\* the value of a rendered expression on `rows`, one row for each table of
\* `from`.  = and != against the text NULL were rendered as IS and IS NOT.
Eval(node, from, rows) ==
    CASE node.kind = "column" ->
            LET k == CHOOSE k \in 1..Len(from) :
                        /\ from[k].name = node.tname
                        /\ IndexIn(from[k].cols, node.name) # 0
            IN  rows[k][IndexIn(from[k].cols, node.name)]
      [] node.kind = "literal" -> node.val
      [] node.op \in {"EQUAL", "NOTEQUAL"} ->
            LET a == Eval(node.args[1], from, rows)
                b == Eval(node.args[2], from, rows)
                isForm == IsNoneLiteral(node.args[1])
                          \/ IsNoneLiteral(node.args[2])
                eq == IF isForm THEN SqlIs(a, b) ELSE SqlEq(a, b)
            IN  IF node.op = "EQUAL" THEN eq ELSE SqlNot(eq)
      [] node.op = "LESSTHAN" ->
            SqlLt(Eval(node.args[1], from, rows),
                  Eval(node.args[2], from, rows))
      [] node.op = "AND" ->
            SqlAnd(Eval(node.args[1], from, rows),
                   Eval(node.args[2], from, rows))
      [] node.op = "OR" ->
            SqlOr(Eval(node.args[1], from, rows),
                  Eval(node.args[2], from, rows))
      [] node.op = "NOT" -> SqlNot(Eval(node.args[1], from, rows))
      [] OTHER -> NoneV

\* a row passes the criteria; no criteria (a Table) passes every row
Passes(hasCriteria, criteria, from, rows) ==
    ~hasCriteria \/ SqlTrue(Eval(criteria, from, rows))

\* CREATE TABLE [IF NOT EXISTS] table (cols...); req.keys holds the
\* columns declared PRIMARY KEY, of which a table may have one; a column
\* declared INTEGER PRIMARY KEY (rowid) is given the row id on insert
EngCreate(eng, req) ==
    LET name == Unquote(req.table)
    IN  IF EngFind(eng, name) # 0
        THEN IF req.flag THEN EngOk(eng, <<>>) ELSE EngError(eng, ErrExists)
        ELSE IF Len(req.keys) > 1 THEN EngError(eng, ErrOther)
        ELSE EngOk(Append(eng, [name |-> name,
                                cols |-> [k \in 1..Len(req.names) |->
                                             Unquote(req.names[k])],
                                types |-> req.columns,
                                pk |-> IF req.keys = <<>> THEN NoName
                                       ELSE Unquote(req.keys[1].name),
                                auto |-> IF req.keys = <<>>
                                            \/ ~req.keys[1].rowid
                                         THEN NoName
                                         ELSE Unquote(req.keys[1].name),
                                rows |-> <<>>]), <<>>)

\* DROP TABLE [IF EXISTS] table
EngDrop(eng, req) ==
    LET k == EngFind(eng, Unquote(req.table))
    IN  IF k = 0
        THEN IF req.flag THEN EngOk(eng, <<>>)
             ELSE EngError(eng, ErrNoSuchTable)
        ELSE EngOk(RemoveAt(eng, k), <<>>)

\* the largest value of column c of the rows, 0 if there is none
MaxOf(rows, c) ==
    IF \E k \in 1..Len(rows) : rows[k][c].ty = "int"
    THEN LET ks == {k \in 1..Len(rows) : rows[k][c].ty = "int"}
         IN  rows[CHOOSE k \in ks : \A j \in ks : rows[j][c].i <= rows[k][c].i][c].i
    ELSE 0

\* INSERT INTO table (names...) VALUES (values...); returns the row id.
\* The statement is parsed before its names are looked up, and an empty
\* column list does not parse.
EngInsert(eng, req) ==
    LET k == EngFind(eng, Unquote(req.table))
        names == [j \in 1..Len(req.names) |-> Unquote(req.names[j])]
    IN  IF names = <<>> THEN EngError(eng, ErrSyntax)
        ELSE IF k = 0 THEN EngError(eng, ErrNoSuchTable)
        ELSE IF \E j \in 1..Len(names) : IndexIn(eng[k].cols, names[j]) = 0
        THEN EngError(eng, ErrOther)
        ELSE LET tab == eng[k]
                 a == IndexIn(tab.cols, tab.auto)
                 given == [c \in 1..Len(tab.cols) |->
                              IF IndexIn(names, tab.cols[c]) # 0
                              THEN req.values[IndexIn(names, tab.cols[c])]
                              ELSE NoneV]
                 rowid == IF a = 0 THEN Len(tab.rows) + 1
                          ELSE IF given[a].ty = "int" THEN given[a].i
                          ELSE MaxOf(tab.rows, a) + 1
                 row == [c \in 1..Len(tab.cols) |->
                            IF c = a THEN IntV(rowid) ELSE given[c]]
             IN  EngOk([eng EXCEPT ![k].rows = Append(tab.rows, row)],
                       <<IntV(rowid)>>)

\* the catalog tables named by the identifiers, <<>> if one is missing
FromTables(eng, idents) ==
    IF \E j \in 1..Len(idents) : EngFind(eng, Unquote(idents[j])) = 0
    THEN <<>>
    ELSE [j \in 1..Len(idents) |-> eng[EngFind(eng, Unquote(idents[j]))]]

\* UPDATE table SET names = values [WHERE criteria]
EngUpdate(eng, req) ==
    LET k == EngFind(eng, Unquote(req.table))
        names == [j \in 1..Len(req.names) |-> Unquote(req.names[j])]
    IN  IF names = <<>> THEN EngError(eng, ErrSyntax)
        ELSE IF k = 0 THEN EngError(eng, ErrNoSuchTable)
        ELSE IF \/ \E j \in 1..Len(names) : IndexIn(eng[k].cols, names[j]) = 0
                \/ (req.hasCriteria
                    /\ ~Resolvable(req.criteria, <<eng[k]>>))
        THEN EngError(eng, ErrOther)
        ELSE LET tab == eng[k]
                 new(row) ==
                    IF Passes(req.hasCriteria, req.criteria, <<tab>>, <<row>>)
                    THEN [c \in 1..Len(tab.cols) |->
                            IF IndexIn(names, tab.cols[c]) # 0
                            THEN req.values[IndexIn(names, tab.cols[c])]
                            ELSE row[c]]
                    ELSE row
             IN  EngOk([eng EXCEPT ![k].rows =
                            [r \in 1..Len(tab.rows) |-> new(tab.rows[r])]],
                       <<>>)

\* DELETE FROM tables [WHERE criteria]: one table, or a syntax error
EngDelete(eng, req) ==
    IF Len(req.tables) # 1 THEN EngError(eng, ErrSyntax)
    ELSE LET k == EngFind(eng, Unquote(req.tables[1]))
         IN  IF k = 0 THEN EngError(eng, ErrNoSuchTable)
             ELSE IF req.hasCriteria /\ ~Resolvable(req.criteria, <<eng[k]>>)
             THEN EngError(eng, ErrOther)
             ELSE LET tab == eng[k]
                      keep == [r \in 1..Len(tab.rows) |->
                                 ~Passes(req.hasCriteria, req.criteria,
                                         <<tab>>, <<tab.rows[r]>>)]
                  IN  EngOk([eng EXCEPT ![k].rows =
                                 SelectSeq2(tab.rows, keep)], <<>>)

\* all the ways to pick one row from each table of `from`, the first table
\* in the outer loop
RECURSIVE Cross(_)
Cross(from) ==
    IF from = <<>> THEN << <<>> >>
    ELSE LET rest == Cross(Tail(from))
             rows == Head(from).rows
         IN  [n \in 1..(Len(rows) * Len(rest)) |->
                <<rows[((n - 1) \div Len(rest)) + 1]>>
                \o rest[((n - 1) % Len(rest)) + 1]]

RECURSIVE Distinct(_)
\* the rows without repetitions, first occurrences kept
Distinct(rows) ==
    IF rows = <<>> THEN <<>>
    ELSE LET init == Distinct(SubSeq(rows, 1, Len(rows) - 1))
             last == rows[Len(rows)]
         IN  IF IndexIn(init, last) # 0 THEN init ELSE Append(init, last)

\* SELECT [DISTINCT] columns FROM tables [WHERE criteria]; columns are
\* [table, name] pairs of identifiers
EngSelect(eng, req) ==
    LET from == FromTables(eng, req.tables)
        cols == [j \in 1..Len(req.columns) |->
                    ColumnNode(0, Unquote(req.columns[j].table),
                               Unquote(req.columns[j].name))]
    IN  IF req.tables = <<>> \/ req.columns = <<>>
        THEN EngError(eng, ErrSyntax)
        ELSE IF from = <<>> THEN EngError(eng, ErrNoSuchTable)
        ELSE IF \/ \E j \in 1..Len(cols) : ~Resolvable(cols[j], from)
                \/ (req.hasCriteria /\ ~Resolvable(req.criteria, from))
        THEN EngError(eng, ErrOther)
        ELSE LET all == Cross(from)
                 keep == [n \in 1..Len(all) |->
                            Passes(req.hasCriteria, req.criteria, from,
                                   all[n])]
                 kept == SelectSeq2(all, keep)
                 out == [n \in 1..Len(kept) |->
                            [j \in 1..Len(cols) |->
                                Eval(cols[j], from, kept[n])]]
             IN  EngOk(eng, IF req.flag THEN Distinct(out) ELSE out)

\* PRAGMA table_info(table): one row (name, type, pk) for each column of
\* the table, no row when there is no such table
EngTableInfo(eng, req) ==
    LET k == EngFind(eng, Unquote(req.table))
    IN  IF k = 0 THEN EngOk(eng, <<>>)
        ELSE EngOk(eng, [c \in 1..Len(eng[k].cols) |->
                            [name |-> eng[k].cols[c],
                             type |-> eng[k].types[c],
                             pk |-> IF eng[k].cols[c] = eng[k].pk
                                    THEN 1 ELSE 0]])

\* cursor.execute(statement, values) on the connection
EngineExec(eng, req) ==
    CASE req.kind = "create" -> EngCreate(eng, req)
      [] req.kind = "drop" -> EngDrop(eng, req)
      [] req.kind = "insert" -> EngInsert(eng, req)
      [] req.kind = "update" -> EngUpdate(eng, req)
      [] req.kind = "delete" -> EngDelete(eng, req)
      [] req.kind = "select" -> EngSelect(eng, req)
      [] req.kind = "table_info" -> EngTableInfo(eng, req)

\* what a statement asks of the engine
Request(kind, table, tables, names, columns, values, flag, keys, has, crit) ==
    [kind |-> kind, table |-> table, tables |-> tables, names |-> names,
     columns |-> columns, values |-> values, flag |-> flag, keys |-> keys,
     hasCriteria |-> has, criteria |-> crit]

NoIdent == CS(<<>>)

NoCriteria == LiteralNode(NoneV)

----------------------------------------------------------------------------
(* class DbapiDriver: transactions and statements.  The driver's state is  *)
(* d = [depth, stmt, values, calls, eng]: transaction_depth,               *)
(* last_statement, last_values, the calls made on the connection by the    *)
(* operation in progress, and the engine behind the connection.            *)

\* a method's outcome: the driver after it, the error raised, the result,
\* and the error that was raised inside the method's own scope, if it had
\* one ("none" otherwise)
Done(d, error, ret) ==
    [d |-> d, raised |-> error, ret |-> ret, inner |-> "none"]

\* SQLiteDriver.handle_exception(error): the error it raises, "none" if it
\* returns
HandleException(error) ==
    CASE error = ErrNoSuchTable -> "NoSuchTableError"
      [] error = ErrSyntax -> "SyntaxError"
      [] error = ErrNoDatabase -> "NoSuchDatabaseError"
      [] error = ErrExists -> "TableAlreadyExists"
      [] error = ErrOther -> "Exception"
      [] OTHER -> "none"

\* a catch_exception that ends after handle_exception returned
CatchExceptionWithoutRaise(error) ==
    IF error = "none" THEN "none" ELSE HandleException(error)

\* Driver.catch_exception: the error that leaves the with block
CatchException(error) ==
    IF error = "none" THEN "none"
    ELSE IF HandleException(error) # "none" THEN HandleException(error)
    ELSE error

\* DbapiDriver.commit / rollback
Commit(d) == [d EXCEPT !.calls = Append(@, "commit")]

Rollback(d) == [d EXCEPT !.calls = Append(@, "rollback")]

\* a transaction() that does not count the scope it opens
TransactionEnterUncounted(d) == d

\* DbapiDriver.transaction, up to the yield
TransactionEnter(d) == [d EXCEPT !.depth = @ + 1]

\* a finally block that commits whenever a scope exits, nested or not
TransactionExitEveryScope(d, raisedInside) ==
    Commit([d EXCEPT !.depth = @ - 1])

\* DbapiDriver.transaction, the finally block.  The local `error` is set to
\* None before the try and never assigned again, whatever was raised.
TransactionExit(d, raisedInside) ==
    LET error == "none"
        d1 == [d EXCEPT !.depth = @ - 1]
    IN  IF d1.depth = 0
        THEN IF error = "none" THEN Commit(d1) ELSE Rollback(d1)
        ELSE d1

\* a construct_statement that puts a space in for every word, empty or not
ConstructStatementAllWords(words) ==
    LET AsStr(r) == IF r.ok THEN Ok(StrV(r.val.s)) ELSE r
        Kept == [k \in 1..Len(words) |->
                    IF Truthy(words[k]) THEN words[k] ELSE CS(<<>>)]
    IN  AsStr(JoinFormat(CS(<<"{}", ";">>), CS(<<" ">>), Kept))

\* DbapiDriver.construct_statement(*words)
ConstructStatement(words) ==
    LET AsStr(r) == IF r.ok THEN Ok(StrV(r.val.s)) ELSE r
    IN  AsStr(JoinFormat(CS(<<"{}", ";">>), CS(<<" ">>), Truthies(words)))

\* DbapiDriver.execute_ro(*words, values=...)
ExecuteRo(d, words, values, req) ==
    LET Sent(st) == [d EXCEPT !.stmt = st.val.s, !.values = values,
                              !.calls = Append(@, "execute")]
        Cursor(d1, r) ==
            IF r.error # "none" THEN Done(d1, r.error, <<>>)
            ELSE Done([d1 EXCEPT !.eng = r.eng], "none", r.ret)
        Run(st) ==
            IF ~st.ok THEN Done(d, st.err, <<>>)
            ELSE Cursor(Sent(st), EngineExec(d.eng, req))
    IN  Run(ConstructStatement(words))

\* DbapiDriver.execute(*words, values=...)
Execute(d, words, values, req) ==
    LET Left(r) ==
            [Done(TransactionExit(r.d, r.raised), CatchException(r.raised),
                  r.ret) EXCEPT !.inner = r.raised]
    IN  Left(ExecuteRo(TransactionEnter(d), words, values, req))

ParamStyles == {"qmark", "format", "numeric", "named", "pyformat"}

\* DbapiDriver.placeholders(values), for values given as names and vals:
\* the placeholder of the k-th value
Placeholder(style, names, k) ==
    CASE style = "qmark" -> CS(<<"?">>)
      [] style = "format" -> CS(<<"%s">>)
      [] style = "numeric" ->
            Format(CS(<<":", "{}">>), <<C(IntV(k - 1))>>, <<>>).val
      [] style = "named" ->
            Format(CS(<<":", "{}">>), <<C(StrV(names[k]))>>, <<>>).val
      [] style = "pyformat" ->
            Format(CS(<<"%(", "{}", ")s">>), <<C(StrV(names[k]))>>,
                   <<>>).val

\* placeholders that hand no value to cursor.execute
NoBoundValues(style, names, vals) == <<>>

\* DbapiDriver.placeholders(values): what is handed to cursor.execute, a
\* list of the values or, for the two named styles, the dict itself
BoundValues(style, names, vals) ==
    [k \in 1..Len(vals) |->
        [key |-> IF style \in {"named", "pyformat"} THEN names[k]
                 ELSE NoName,
         val |-> vals[k]]]

\* the values of an outcome sequence, all of them ok
Vals(outs) == [k \in 1..Len(outs) |-> outs[k].val]

AllOk(outs) == \A k \in 1..Len(outs) : outs[k].ok

\* column.datatype.database_type (dibi/datatype): Float, Blob and the
\* base DataType have no such attribute
DatabaseType(datatype) ==
    CASE datatype = "Integer" -> Ok(StrV(<<"INT">>))
      [] datatype \in {"Text", "Date", "DateTime"} -> Ok(StrV(<<"TEXT">>))
      [] OTHER -> Err("AttributeError")

\* SQLiteDriver.map_type(database_type, database_size)
MapType(database_type) ==
    CASE database_type = <<"INT">> -> Ok(CS(<<"INT">>))
      [] database_type = <<"REAL">> -> Ok(CS(<<"REAL">>))
      [] database_type = <<"TEXT">> -> Ok(CS(<<"TEXT">>))
      [] database_type = <<"BLOB">> -> Ok(CS(<<"BLOB">>))
      [] database_type = <<"DATETIME">> -> Ok(CS(<<"TIMESTAMP">>))
      [] OTHER -> Err("KeyError")

\* SQLiteDriver.unmap_type(database_type)
UnmapType(database_type) ==
    CASE database_type = <<"TEXT">> -> Ok("Text")
      [] database_type = <<"INTEGER">> -> Ok("Integer")
      [] database_type = <<"INT">> -> Ok("Integer")
      [] database_type = <<"REAL">> -> Ok("Float")
      [] database_type = <<"BLOB">> -> Ok("Blob")
      [] database_type = <<"TIMESTAMP">> -> Ok("DateTime")
      [] OTHER -> Err("KeyError")

\* SQLiteDriver.column_definition(column)
ColumnDefinition(column) ==
    IF column.autoincrement
    THEN JoinWords(CS(<<" ">>), <<Identifier(column.name),
                                  CS(<<"INTEGER PRIMARY KEY ASC">>)>>)
    ELSE LET dt == DatabaseType(column.datatype)
             mt == IF dt.ok THEN MapType(dt.val.s) ELSE dt
         IN  IF ~mt.ok THEN mt
             ELSE JoinWords(CS(<<" ">>),
                    <<Identifier(column.name), mt.val,
                      IF column.primarykey THEN CS(<<"PRIMARY KEY">>)
                      ELSE NoneV,
                      IF column.autoincrement THEN CS(<<"AUTO_INCREMENT">>)
                      ELSE NoneV>>)

\* the type name in column_definition(column), as the engine reads it
DeclaredType(column) ==
    IF column.autoincrement THEN <<"INTEGER">>
    ELSE MapType(DatabaseType(column.datatype).val.s).val.s

RECURSIVE KeyColumns(_)
\* the columns whose definition says PRIMARY KEY, and whether it says
\* INTEGER PRIMARY KEY
KeyColumns(columns) ==
    IF columns = <<>> THEN <<>>
    ELSE (IF Head(columns).autoincrement \/ Head(columns).primarykey
          THEN <<[name |-> Identifier(Head(columns).name),
                  rowid |-> Head(columns).autoincrement]>>
          ELSE <<>>)
         \o KeyColumns(Tail(columns))

\* a create_table that says IF NOT EXISTS whatever force_create is
CreateTableIfNotExists(d, tname, columns, force_create) ==
    LET Create(defs) ==
        IF ~AllOk(defs) THEN Done(d, FirstError(defs).err, <<>>)
        ELSE Execute(d,
                <<CS(<<"CREATE TABLE">>),
                  CS(<<"IF NOT EXISTS">>),
                  Identifier(tname),
                  JoinFormat(CS(<<"(", "{}", ")">>), CS(<<", ">>),
                             Vals(defs)).val>>,
                <<>>,
                Request("create", Identifier(tname), <<>>,
                        [k \in 1..Len(columns) |->
                            Identifier(columns[k].name)],
                        [k \in 1..Len(columns) |->
                            DeclaredType(columns[k])],
                        <<>>, TRUE, KeyColumns(columns),
                        FALSE, NoCriteria))
    IN  Create([k \in 1..Len(columns) |-> ColumnDefinition(columns[k])])

\* DbapiDriver.create_table(table, columns, force_create); columns are the
\* Column objects in the order of the collection
CreateTable(d, tname, columns, force_create) ==
    LET Create(defs) ==
        IF ~AllOk(defs) THEN Done(d, FirstError(defs).err, <<>>)
        ELSE Execute(d,
                <<CS(<<"CREATE TABLE">>),
                  IF force_create THEN CS(<<"IF NOT EXISTS">>) ELSE NoneV,
                  Identifier(tname),
                  JoinFormat(CS(<<"(", "{}", ")">>), CS(<<", ">>),
                             Vals(defs)).val>>,
                <<>>,
                Request("create", Identifier(tname), <<>>,
                        [k \in 1..Len(columns) |->
                            Identifier(columns[k].name)],
                        [k \in 1..Len(columns) |->
                            DeclaredType(columns[k])],
                        <<>>, force_create, KeyColumns(columns),
                        FALSE, NoCriteria))
    IN  Create([k \in 1..Len(columns) |-> ColumnDefinition(columns[k])])

\* a drop_table that never says IF EXISTS
DropTableNeverIfExists(d, tname, ignore_absence) ==
    Execute(d,
        <<CS(<<"DROP TABLE">>), NoneV, Identifier(tname)>>,
        <<>>,
        Request("drop", Identifier(tname), <<>>, <<>>, <<>>, <<>>,
                FALSE, <<>>, FALSE, NoCriteria))

\* DbapiDriver.drop_table(table, ignore_absence)
DropTable(d, tname, ignore_absence) ==
    Execute(d,
        <<CS(<<"DROP TABLE">>),
          IF ignore_absence THEN CS(<<"IF EXISTS">>) ELSE NoneV,
          Identifier(tname)>>,
        <<>>,
        Request("drop", Identifier(tname), <<>>, <<>>, <<>>, <<>>,
                ignore_absence, <<>>, FALSE, NoCriteria))

\* DbapiDriver.insert(table, values), values given as names and vals
Insert(d, style, tname, names, vals) ==
    LET idents == [k \in 1..Len(names) |-> Identifier(names[k])]
        marks == [k \in 1..Len(names) |-> Placeholder(style, names, k)]
    IN  Execute(d,
            <<CS(<<"INSERT INTO">>),
              Identifier(tname),
              JoinFormat(CS(<<"(", "{}", ")">>), CS(<<", ">>), idents).val,
              CS(<<"VALUES">>),
              JoinFormat(CS(<<"(", "{}", ")">>), CS(<<", ">>), marks).val>>,
            BoundValues(style, names, vals),
            Request("insert", Identifier(tname), <<>>, idents, <<>>, vals,
                    FALSE, <<>>, FALSE, NoCriteria))

\* the WHERE words of select, update and delete
WhereWords(hasCriteria, rendered) ==
    <<IF hasCriteria THEN CS(<<"WHERE">>) ELSE NoneV,
      IF hasCriteria THEN rendered.val ELSE NoneV>>

\* a select that runs its statement in a transaction of its own
SelectInTransaction(d, tables, hasCriteria, criteria, columns, distinct) ==
    LET cols == [k \in 1..Len(columns) |->
                    [table |-> Identifier(columns[k].tname),
                     name |-> Identifier(columns[k].name)]]
        colWords == [k \in 1..Len(cols) |->
                        Format(CS(<<"{}", ".", "{}">>),
                               <<cols[k].table, cols[k].name>>, <<>>).val]
        idents == [k \in 1..Len(tables) |-> Identifier(tables[k])]
        Run(rendered) ==
        IF ~rendered.ok THEN Done(d, rendered.err, <<>>)
        ELSE Execute(d,
                <<CS(<<"SELECT">>),
                  IF distinct THEN CS(<<"DISTINCT">>) ELSE NoneV,
                  Join(CS(<<", ">>), colWords).val,
                  CS(<<"FROM">>),
                  Join(CS(<<", ">>), idents).val>>
                \o WhereWords(hasCriteria, rendered),
                <<>>,
                Request("select", NoIdent, idents, <<>>, cols, <<>>,
                        distinct, <<>>, hasCriteria, criteria))
    IN  Run(IF hasCriteria THEN Expression(criteria) ELSE Ok(NoneV))

\* DbapiDriver.select(tables, criteria, columns, distinct): tables the
\* names of the tables in iteration order, columns [tname, name] records
Select(d, tables, hasCriteria, criteria, columns, distinct) ==
    LET cols == [k \in 1..Len(columns) |->
                    [table |-> Identifier(columns[k].tname),
                     name |-> Identifier(columns[k].name)]]
        colWords == [k \in 1..Len(cols) |->
                        Format(CS(<<"{}", ".", "{}">>),
                               <<cols[k].table, cols[k].name>>, <<>>).val]
        idents == [k \in 1..Len(tables) |-> Identifier(tables[k])]
        Run(rendered) ==
        IF ~rendered.ok THEN Done(d, rendered.err, <<>>)
        ELSE ExecuteRo(d,
                <<CS(<<"SELECT">>),
                  IF distinct THEN CS(<<"DISTINCT">>) ELSE NoneV,
                  Join(CS(<<", ">>), colWords).val,
                  CS(<<"FROM">>),
                  Join(CS(<<", ">>), idents).val>>
                \o WhereWords(hasCriteria, rendered),
                <<>>,
                Request("select", NoIdent, idents, <<>>, cols, <<>>,
                        distinct, <<>>, hasCriteria, criteria))
    IN  Run(IF hasCriteria THEN Expression(criteria) ELSE Ok(NoneV))

\* DbapiDriver.update(table, criteria, values), values as names and vals
Update(d, style, tname, hasCriteria, criteria, names, vals) ==
    LET idents == [k \in 1..Len(names) |-> Identifier(names[k])]
        pairs == [k \in 1..Len(names) |->
                    Format(CS(<<"{}", "=", "{}">>),
                           <<idents[k], Placeholder(style, names, k)>>,
                           <<>>).val]
        Run(rendered) ==
        IF ~rendered.ok THEN Done(d, rendered.err, <<>>)
        ELSE Execute(d,
                <<CS(<<"UPDATE">>),
                  Identifier(tname),
                  CS(<<"SET">>),
                  Join(CS(<<", ">>), pairs).val>>
                \o WhereWords(hasCriteria, rendered),
                BoundValues(style, names, vals),
                Request("update", Identifier(tname), <<>>, idents, <<>>,
                        vals, FALSE, <<>>, hasCriteria, criteria))
    IN  Run(IF hasCriteria THEN Expression(criteria) ELSE Ok(NoneV))

\* DbapiDriver.delete(tables, criteria)
Delete(d, tables, hasCriteria, criteria) ==
    LET idents == [k \in 1..Len(tables) |-> Identifier(tables[k])]
        Run(rendered) ==
        IF ~rendered.ok THEN Done(d, rendered.err, <<>>)
        ELSE Execute(d,
                <<CS(<<"DELETE FROM">>),
                  Join(CS(<<", ">>), idents).val>>
                \o WhereWords(hasCriteria, rendered),
                <<>>,
                Request("delete", NoIdent, idents, <<>>, <<>>, <<>>, FALSE,
                        <<>>, hasCriteria, criteria))
    IN  Run(IF hasCriteria THEN Expression(criteria) ELSE Ok(NoneV))

----------------------------------------------------------------------------
(* class Collection (dibi/collection.py): the storage dict, a sequence of  *)
(* [key, item] in insertion order.                                         *)

KeyIndex(items, key) ==
    IF \E k \in 1..Len(items) : items[k].key = key
    THEN CHOOSE k \in 1..Len(items) : items[k].key = key
    ELSE 0

\* an add that stores the item whatever replace is
CollectionAddAlways(items, key, item, replace) ==
    [items |-> IF KeyIndex(items, key) = 0
               THEN Append(items, [key |-> key, item |-> item])
               ELSE [items EXCEPT ![KeyIndex(items, key)].item = item],
     ret |-> item]

\* Collection.add(item, replace): the storage after it and the member
\* returned
CollectionAdd(items, key, item, replace) ==
    LET k == KeyIndex(items, key)
    IN  IF replace \/ k = 0
        THEN [items |-> IF k = 0
                        THEN Append(items, [key |-> key, item |-> item])
                        ELSE [items EXCEPT ![k].item = item],
              ret |-> item]
        ELSE [items |-> items, ret |-> items[k].item]

\* Collection.discard(item): self.__items.pop(key, None)
CollectionDiscard(items, key) ==
    IF KeyIndex(items, key) = 0 THEN items
    ELSE RemoveAt(items, KeyIndex(items, key))

\* a remove that passes over an absent key as discard does
CollectionRemoveQuietly(items, key) ==
    [items |-> CollectionDiscard(items, key), raised |-> "none"]

\* Collection.remove(item) and Collection.__delitem__(key):
\* del self.__items[key], which raises KeyError when the key is absent
CollectionRemove(items, key) ==
    IF KeyIndex(items, key) = 0 THEN [items |-> items, raised |-> "KeyError"]
    ELSE [items |-> RemoveAt(items, KeyIndex(items, key)),
          raised |-> "none"]

\* the members in iteration order
Members(items) == [k \in 1..Len(items) |-> items[k].item]

----------------------------------------------------------------------------
(* class Column, class Table, class DB (dibi/common.py, dibi/__init__.py)  *)
(* A Table is [name, columns, primarykey]: primarykey is the name of the   *)
(* Column it refers to, NoName for None.                                   *)

\* Column.__init__
NewColumn(name, datatype, primarykey, autoincrement) ==
    [name |-> name, datatype |-> datatype, primarykey |-> primarykey,
     autoincrement |-> autoincrement, implicit |-> FALSE]

\* Table.add_column(name, datatype, primarykey, autoincrement): the table
\* after it; the column returned is the member named `name`
AddColumnTo(table, name, datatype, primarykey, autoincrement) ==
    LET r == CollectionAdd(table.columns, name,
                           NewColumn(name, datatype, primarykey,
                                     autoincrement), FALSE)
    IN  [table EXCEPT !.columns = r.items,
                      !.primarykey = IF primarykey THEN r.ret.name ELSE @]

\* Table.add_column: the Column it returns
AddColumnReturn(table, name, datatype, primarykey, autoincrement) ==
    CollectionAdd(table.columns, name,
                  NewColumn(name, datatype, primarykey, autoincrement),
                  FALSE).ret

\* Table.__init__(db, name, primarykey)
NewTable(name, primarykey) ==
    LET table == [name |-> name, columns |-> <<>>, primarykey |-> NoName]
    IN  IF primarykey # NoName
        THEN AddColumnTo(table, primarykey, "Integer", TRUE, TRUE)
        ELSE table

ImplicitName == <<"__id__">>

\* a save that adds the implicit key whether or not a primary key is set
InjectPrimaryKeyAlways(table) ==
    LET t1 == AddColumnTo(table, ImplicitName, "Integer", TRUE, TRUE)
        k == KeyIndex(t1.columns, t1.primarykey)
    IN  [t1 EXCEPT !.columns[k].item.implicit = TRUE]

\* Table.save, up to the call of the driver: the error it raises and the
\* table after the implicit primary key was added
InjectPrimaryKey(table) ==
    IF table.primarykey = NoName
    THEN LET t1 == AddColumnTo(table, ImplicitName, "Integer", TRUE, TRUE)
             k == KeyIndex(t1.columns, t1.primarykey)
         IN  [t1 EXCEPT !.columns[k].item.implicit = TRUE]
    ELSE table

\* a save that adds the implicit primary key before it looks at the columns
PreparedInjectFirst(table) ==
    [raised |-> IF InjectPrimaryKey(table).columns = <<>>
                THEN "NoColumnsError" ELSE "none",
     table |-> InjectPrimaryKey(table)]

Prepared(table) ==
    IF table.columns = <<>>
    THEN [raised |-> "NoColumnsError", table |-> table]
    ELSE [raised |-> "none", table |-> InjectPrimaryKey(table)]

RECURSIVE DefaultColumns(_, _)
\* Selectable.select with no columns: the columns of `table` that are not
\* implicit, as [tname, name]
DefaultColumns(tname, columns) ==
    IF columns = <<>> THEN <<>>
    ELSE (IF ~Head(columns).implicit
          THEN <<[tname |-> tname, name |-> Head(columns).name]>>
          ELSE <<>>)
         \o DefaultColumns(tname, Tail(columns))

----------------------------------------------------------------------------
(* The state of the driver as one record, and back *)

Drv ==
    [depth |-> transaction_depth, stmt |-> last_statement,
     values |-> last_values, calls |-> <<>>, eng |-> engine]

SetDrv(d) ==
    /\ transaction_depth' = d.depth
    /\ last_statement' = d.stmt
    /\ last_values' = d.values
    /\ calls' = d.calls
    /\ engine' = d.eng

Op(name, tid) == [name |-> name, tid |-> tid]

NoSelection == [columns |-> <<>>, rows |-> <<>>]

\* one() has not been called; after a call, none says it returned None
NoReturn == [called |-> FALSE, none |-> TRUE, row |-> <<>>]

\* a Selection just made: its cursor stands before the first row
NewCursor ==
    /\ fetched = 0
    /\ yielded = <<>>
    /\ returned = NoReturn

----------------------------------------------------------------------------
(* Bounds and input sets of the schema operations *)

MaxTables == 2          \* Table objects the caller creates

TableNames == {<<"t">>}

ColNames == {<<"a">>, ImplicitName}

----------------------------------------------------------------------------
(* Operations on the DB and its Tables *)

\* DB.add_table(name, primarykey): self.tables.add(Table(...)), and add
\* replaces by default
AddTable(name, primarykey) ==
    /\ Len(heap) < MaxTables
    /\ LET tid == Len(heap) + 1
           r == CollectionAdd(dbTables, name, tid, TRUE)
       IN  /\ heap' = Append(heap, NewTable(name, primarykey))
           /\ dbTables' = r.items
           /\ lastOp' = Op("add_table", r.ret)
    /\ raised' = "none"
    /\ calls' = <<>>
    /\ UNCHANGED <<engine, transaction_depth, last_statement, last_values,
                   selection, paramstyle, flt, sqlVars, curVars, bodyError, result>>

\* Table.add_column(name, datatype, primarykey) on the table object tid
AddColumn(tid, name, datatype, primarykey) ==
    /\ heap' = [heap EXCEPT ![tid] =
                    AddColumnTo(@, name, datatype, primarykey, FALSE)]
    /\ result' = <<AddColumnReturn(heap[tid], name, datatype, primarykey,
                                   FALSE)>>
    /\ lastOp' = Op("add_column", tid)
    /\ raised' = "none"
    /\ calls' = <<>>
    /\ UNCHANGED <<dbTables, engine, transaction_depth, last_statement,
                   last_values, selection, paramstyle, flt, sqlVars, curVars,
                   bodyError>>

\* Table.save(force_create)
Save(tid, force_create) ==
    LET Created(r) ==
            /\ raised' = r.raised
            /\ SetDrv(r.d)
        Saved(p) ==
            /\ heap' = [heap EXCEPT ![tid] = p.table]
            /\ lastOp' = Op("save", tid)
            /\ IF p.raised # "none"
               THEN /\ raised' = p.raised
                    /\ calls' = <<>>
                    /\ UNCHANGED <<engine, transaction_depth, last_statement,
                                   last_values>>
               ELSE Created(CreateTable(Drv, p.table.name,
                                        Members(p.table.columns),
                                        force_create))
            /\ UNCHANGED <<dbTables, selection, paramstyle, flt, sqlVars, curVars, bodyError, result>>
    IN  Saved(Prepared(heap[tid]))

\* a drop that takes the table out of db.tables before it calls the driver
DropDiscardingFirst(tid, ignore_absence) ==
    LET Dropped(r) ==
            /\ SetDrv(r.d)
            /\ raised' = r.raised
            /\ dbTables' = CollectionDiscard(dbTables, heap[tid].name)
            /\ lastOp' = Op("drop", tid)
            /\ UNCHANGED <<heap, selection, paramstyle, flt, sqlVars, curVars,
                           bodyError, result>>
    IN  Dropped(DropTable(Drv, heap[tid].name, ignore_absence))

\* Table.drop(ignore_absence)
Drop(tid, ignore_absence) ==
    LET Dropped(r) ==
            /\ SetDrv(r.d)
            /\ raised' = r.raised
            /\ dbTables' = IF r.raised = "none"
                           THEN CollectionDiscard(dbTables, heap[tid].name)
                           ELSE dbTables
            /\ lastOp' = Op("drop", tid)
            /\ UNCHANGED <<heap, selection, paramstyle, flt, sqlVars, curVars, bodyError, result>>
    IN  Dropped(DropTable(Drv, heap[tid].name, ignore_absence))

\* Table.insert(**values), values given as names and vals
TableInsert(tid, names, vals) ==
    LET Inserted(r) ==
            /\ SetDrv(r.d)
            /\ raised' = r.raised
            /\ lastOp' = Op("insert", tid)
            /\ UNCHANGED <<objVars, selection, paramstyle, flt, sqlVars,
                           curVars, bodyError, result>>
    IN  Inserted(Insert(Drv, paramstyle, heap[tid].name, names, vals))

\* Table.update(**values): Selectable.update with the table itself as the
\* only table and no criteria
TableUpdate(tid, names, vals) ==
    LET Updated(r) ==
            /\ SetDrv(r.d)
            /\ raised' = r.raised
            /\ lastOp' = Op("update", tid)
            /\ UNCHANGED <<objVars, selection, paramstyle, flt, sqlVars,
                           curVars, bodyError, result>>
    IN  Updated(Update(Drv, paramstyle, heap[tid].name, FALSE, NoCriteria,
                       names, vals))

\* Table.select() with no columns: Selection(db, columns, {self}, None,
\* False)
SelectTable(tid) ==
    LET columns == DefaultColumns(heap[tid].name,
                                  Members(heap[tid].columns))
        Selected(r) ==
            /\ SetDrv(r.d)
            /\ raised' = r.raised
            /\ selection' = IF r.raised = "none"
                            THEN [columns |-> columns, rows |-> r.ret]
                            ELSE selection
            /\ IF r.raised = "none"
               THEN /\ fetched' = 0
                    /\ yielded' = <<>>
                    /\ returned' = NoReturn
               ELSE UNCHANGED curVars
            /\ lastOp' = Op("select", tid)
            /\ UNCHANGED <<heap, dbTables, paramstyle, flt, sqlVars, bodyError, result>>
    IN  Selected(Select(Drv, <<heap[tid].name>>, FALSE, NoCriteria, columns,
                        FALSE))

NoFilter == LiteralNode(NoneV)

\* list(SQLiteDriver.list_columns(table)): the generator run to its end;
\* ret holds the Column descriptors it yielded
ListColumns(d, table) ==
    LET Described(d1, rows, types) ==
            IF ~AllOk(types) THEN Done(d1, FirstError(types).err, <<>>)
            ELSE Done(d1, "none",
                      [k \in 1..Len(rows) |->
                          NewColumn(rows[k].name, types[k].val,
                                    rows[k].pk > 0, FALSE)])
        Listed(r) ==
            IF r.raised # "none" THEN r
            ELSE IF r.ret = <<>> THEN Done(r.d, "NoSuchTableError", <<>>)
            ELSE Described(r.d, r.ret,
                           [k \in 1..Len(r.ret) |->
                               UnmapType(r.ret[k].type)])
        Run(w) ==
            IF ~w.ok THEN Done(d, w.err, <<>>)
            ELSE Listed(ExecuteRo(d, <<w.val>>, <<>>,
                            Request("table_info", Identifier(table), <<>>,
                                    <<>>, <<>>, <<>>, FALSE, <<>>, FALSE,
                                    NoCriteria)))
    IN  Run(Format(CS(<<"PRAGMA table_info(", "{}", ")">>),
                   <<Identifier(table)>>, <<>>))

\* list(db.driver.list_columns(table))
DriverListColumns(table) ==
    LET Listed(r) ==
            /\ raised' = r.raised
            /\ result' = r.ret
            /\ SetDrv(r.d)
    IN  /\ Listed(ListColumns(Drv, table))
        /\ lastOp' = Op("list_columns", 0)
        /\ UNCHANGED <<objVars, selection, paramstyle, flt, sqlVars, curVars,
                       bodyError>>

InitSchema ==
    /\ sqlCall = NoCall
    /\ sqlOut = Ok(NoneV)
    /\ heap = <<>>
    /\ dbTables = <<>>
    /\ engine = <<>>
    /\ transaction_depth = 0
    /\ last_statement = <<>>
    /\ last_values = <<>>
    /\ calls = <<>>
    /\ raised = "none"
    /\ lastOp = Op("none", 0)
    /\ selection = NoSelection
    /\ paramstyle = "qmark"
    /\ flt = NoFilter
    /\ NewCursor
    /\ bodyError = "none"
    /\ result = <<>>

SchemaAddTable == \E name \in TableNames : AddTable(name, NoName)

SchemaAddColumn ==
    \E tid \in 1..Len(heap), name \in ColNames :
        AddColumn(tid, name, "Integer", FALSE)

SchemaSave == \E tid \in 1..Len(heap), force \in BOOLEAN : Save(tid, force)

SchemaDrop == \E tid \in 1..Len(heap), ignore \in BOOLEAN : Drop(tid, ignore)

SchemaSelect == \E tid \in 1..Len(heap) : SelectTable(tid)

SchemaListColumns == \E name \in TableNames : DriverListColumns(name)

NextSchema ==
    \/ SchemaAddTable
    \/ SchemaAddColumn
    \/ SchemaSave
    \/ SchemaDrop
    \/ SchemaSelect
    \/ SchemaListColumns

SpecSchema == InitSchema /\ [][NextSchema]_vars

----------------------------------------------------------------------------
(* The CleanSQL calls, on inputs drawn from bounded sets *)

\* the Python values handed to the calls: clean and unclean, true and false
ArgValues ==
    {NoneV, StrV(<<>>), StrV(<<"a">>), CS(<<>>), CS(<<"a">>), CS(<<"'">>)}

ArgLists == UNION {[1..n -> ArgValues] : n \in 0..MaxArgs}

Templates ==
    {CS(<<", ">>), CS(<<"(", "{}", ")">>), CS(<<"{}", ".", "{}">>),
     CS(<<"{0}", "{1}", "{0}">>), CS(<<"{k}", "=", "{}">>)}

Joiners == {CS(<<", ">>), StrV(<<", ">>), NoneV}

KwLists ==
    {<<>>} \cup {<<[key |-> "{k}", val |-> v]>> :
                    v \in {NoneV, StrV(<<"a">>), CS(<<"a">>)}}

\* the caller's receiver and arguments, before any call is made
InitSQL ==
    /\ sqlCall \in [op : {"none"}, self : Templates, joiner : Joiners,
                    args : ArgLists, kwargs : KwLists]
    /\ sqlOut = Ok(NoneV)
    /\ heap = <<>>
    /\ dbTables = <<>>
    /\ engine = <<>>
    /\ transaction_depth = 0
    /\ last_statement = <<>>
    /\ last_values = <<>>
    /\ calls = <<>>
    /\ raised = "none"
    /\ lastOp = Op("none", 0)
    /\ selection = NoSelection
    /\ paramstyle = "qmark"
    /\ flt = NoFilter
    /\ NewCursor
    /\ bodyError = "none"
    /\ result = <<>>

OtherVars ==
    <<heap, dbTables, engine, transaction_depth, last_statement,
      last_values, calls, raised, lastOp, selection, paramstyle, flt,
      fetched, yielded, returned, bodyError, result>>

DoJoin ==
    /\ sqlCall.op = "none"
    /\ sqlCall' = [sqlCall EXCEPT !.op = "join"]
    /\ sqlOut' = Join(sqlCall.self, sqlCall.args)
    /\ UNCHANGED OtherVars

DoJoinWords ==
    /\ sqlCall.op = "none"
    /\ sqlCall' = [sqlCall EXCEPT !.op = "join_words"]
    /\ sqlOut' = JoinWords(sqlCall.self, sqlCall.args)
    /\ UNCHANGED OtherVars

DoJoinFormat ==
    /\ sqlCall.op = "none"
    /\ sqlCall' = [sqlCall EXCEPT !.op = "join_format"]
    /\ sqlOut' = JoinFormat(sqlCall.self, sqlCall.joiner, sqlCall.args)
    /\ UNCHANGED OtherVars

DoFormat ==
    /\ sqlCall.op = "none"
    /\ sqlCall' = [sqlCall EXCEPT !.op = "format"]
    /\ sqlOut' = Format(sqlCall.self, sqlCall.args, sqlCall.kwargs)
    /\ UNCHANGED OtherVars

\* a direct call of one of the driver's operator rendering functions, as in
\* the doctests of EQUAL and NOTEQUAL
DoOperator ==
    \E op \in OperatorNames :
        /\ sqlCall.op = "none"
        /\ sqlCall.kwargs = <<>>
        /\ sqlCall' = [sqlCall EXCEPT !.op = op]
        /\ sqlOut' = ApplyOperator(op, sqlCall.args)
        /\ UNCHANGED OtherVars

\* DbapiDriver.construct_statement(*words), the arguments as the words
DoConstructStatement ==
    /\ sqlCall.op = "none"
    /\ sqlCall.kwargs = <<>>
    /\ sqlCall' = [sqlCall EXCEPT !.op = "construct_statement"]
    /\ sqlOut' = ConstructStatement(sqlCall.args)
    /\ UNCHANGED OtherVars

NextSQL ==
    \/ DoJoin
    \/ DoJoinWords
    \/ DoJoinFormat
    \/ DoFormat
    \/ DoOperator
    \/ DoConstructStatement

SpecSQL == InitSQL /\ [][NextSQL]_vars

----------------------------------------------------------------------------
(* C3: join, join_words, join_format and format raise TypeError, and so    *)
(* produce no string, whenever a value they would splice into the result   *)
(* is not a CleanSQL: any value for join, any non-empty word for           *)
(* join_words, the joiner or any value for join_format, any positional or  *)
(* keyword argument for format.                                            *)

\* the values the call would splice into its result
Spliced(call) ==
    CASE call.op = "join" -> {call.args[k] : k \in 1..Len(call.args)}
      [] call.op = "join_words" ->
            {call.args[k] : k \in {j \in 1..Len(call.args) :
                                        Truthy(call.args[j])}}
      [] call.op = "join_format" ->
            {call.joiner} \cup {call.args[k] : k \in 1..Len(call.args)}
      [] call.op = "format" ->
            {call.args[k] : k \in 1..Len(call.args)}
            \cup {call.kwargs[k].val : k \in 1..Len(call.kwargs)}
      [] OTHER -> {}

UncleanRejected ==
    (sqlCall.op \in {"join", "join_words", "join_format", "format"}
        /\ \E v \in Spliced(sqlCall) : ~IsClean(v))
    => (~sqlOut.ok /\ sqlOut.err = "TypeError")

\* join_words met a non-empty unclean word after an empty one and raised
UncleanRejectedWitness ==
    /\ sqlCall.op = "join_words"
    /\ Len(sqlCall.args) = 2
    /\ ~Truthy(sqlCall.args[1])
    /\ Truthy(sqlCall.args[2]) /\ ~IsClean(sqlCall.args[2])
    /\ sqlOut = Err("TypeError")

----------------------------------------------------------------------------
(* C4: a sanitized string is only ever built from parts that are CleanSQL: *)
(* whenever a CleanSQL operation or one of the driver's operator rendering *)
(* functions returns a sanitized string, every value it spliced into that  *)
(* string was a CleanSQL.                                                  *)

\* the replacement fields of an operator's format string
FieldCount(tmpl) == Cardinality({k \in 1..Len(tmpl) : tmpl[k] = AutoField})

\* the arguments an operator rendering function puts into its result
OperatorParts(call) ==
    LET n == IF call.op \in TemplateOperators
             THEN FieldCount(OperatorString(call.op))
             ELSE 2
    IN  {call.args[k] : k \in 1..(IF n < Len(call.args) THEN n
                                  ELSE Len(call.args))}

CleanOnlyFromCleanParts ==
    (sqlCall.op # "none" /\ sqlOut.ok /\ IsClean(sqlOut.val))
    => \A v \in (IF sqlCall.op \in OperatorNames THEN OperatorParts(sqlCall)
                 ELSE Spliced(sqlCall)) : IsClean(v)

----------------------------------------------------------------------------
(* Statements and transaction scopes on the driver itself *)

MaxDepth == 2           \* transaction() scopes the caller nests

MaxRows == 1            \* rows inserted into one table

TxnTables == {<<"t">>, <<"u">>}

TxnColumns == <<NewColumn(<<"a">>, "Integer", FALSE, FALSE)>>

UserError == "ValueError"

\* what the code inside a scope may raise: the caller's own error, or an
\* error of the engine from a cursor the caller uses inside the scope
BodyErrors ==
    {UserError, ErrNoSuchTable, ErrSyntax, ErrExists, ErrNoDatabase, ErrOther}

\* with driver.transaction(): entered by the caller
TxnEnter ==
    /\ transaction_depth < MaxDepth
    /\ SetDrv(TransactionEnter(Drv))
    /\ raised' = "none"
    /\ lastOp' = Op("enter", 0)
    /\ UNCHANGED <<objVars, selection, paramstyle, flt, sqlVars, curVars, bodyError, result>>

\* the caller's with block ends, normally (error is "none") or by an
\* error raised in it
TxnExit(error) ==
    /\ transaction_depth > 0
    /\ SetDrv(TransactionExit(Drv, error))
    /\ raised' = CatchException(error)
    /\ bodyError' = error
    /\ lastOp' = Op("exit", 0)
    /\ UNCHANGED <<objVars, selection, paramstyle, flt, sqlVars, curVars,
                   result>>

\* a statement method of the driver was called and returned r
TxnStatement(name, r) ==
    /\ SetDrv(r.d)
    /\ raised' = r.raised
    /\ bodyError' = r.inner
    /\ lastOp' = Op(name, 0)
    /\ UNCHANGED <<objVars, selection, paramstyle, flt, sqlVars, curVars,
                   result>>

TxnCreateTable ==
    \E tname \in TxnTables, force \in BOOLEAN :
        TxnStatement("create_table",
                     CreateTable(Drv, tname, TxnColumns, force))

TxnDropTable ==
    \E tname \in TxnTables, ignore \in BOOLEAN :
        TxnStatement("drop_table", DropTable(Drv, tname, ignore))

TxnInsert ==
    \E tname \in TxnTables :
        /\ \A k \in 1..Len(engine) : Len(engine[k].rows) < MaxRows
        /\ TxnStatement("insert",
                        Insert(Drv, paramstyle, tname, <<(<<"a">>)>>,
                               <<IntV(1)>>))

TxnUpdate ==
    \E tname \in TxnTables :
        TxnStatement("update",
                     Update(Drv, paramstyle, tname, FALSE, NoCriteria,
                            <<(<<"a">>)>>, <<IntV(2)>>))

TxnDelete ==
    \E tname \in TxnTables :
        TxnStatement("delete", Delete(Drv, <<tname>>, FALSE, NoCriteria))

TxnExitNormally == TxnExit("none")

TxnExitRaising == \E error \in BodyErrors : TxnExit(error)

NextTxn ==
    \/ TxnEnter
    \/ TxnExitNormally
    \/ TxnExitRaising
    \/ TxnCreateTable
    \/ TxnDropTable
    \/ TxnInsert
    \/ TxnUpdate
    \/ TxnDelete

SpecTxn == InitSchema /\ [][NextTxn]_vars

----------------------------------------------------------------------------
(* C1: when a statement run through DbapiDriver.execute raises inside an   *)
(* outermost transaction() scope, or the outermost scope is left by an     *)
(* error, the driver calls rollback() and does not call commit().          *)

Called(what) == \E k \in 1..Len(calls) : calls[k] = what

ErrorRollsBack ==
    (/\ raised # "none"
     /\ transaction_depth = 0
     /\ lastOp.name # "none")
    => (Called("rollback") /\ ~Called("commit"))

----------------------------------------------------------------------------
(* C2: commit() or rollback() is called exactly once for each outermost    *)
(* transaction() scope, as the last thing when that scope exits and the    *)
(* depth is back to 0; no exit of an inner scope calls either.             *)

Endings == {k \in 1..Len(calls) : calls[k] \in {"commit", "rollback"}}

OutermostEndsOnce ==
    IF transaction_depth = 0 /\ lastOp.name # "none"
    THEN Endings = {Len(calls)} /\ calls # <<>>
    ELSE Endings = {}

OutermostEndsOnceWitness ==
    /\ lastOp.name = "exit"
    /\ transaction_depth = 1
    /\ Endings = {}
    /\ engine # <<>>

----------------------------------------------------------------------------
(* Filters built by the operator overloads of Column and Filter, and the   *)
(* select, update and delete of Selectable, on a database that holds the   *)
(* saved tables t(a) and u(c) with one row each.                           *)

MaxNesting == 2         \* Filters nested inside a Filter

ExprTable(name, cname) ==
    Prepared(AddColumnTo(NewTable(name, NoName), cname, "Integer", FALSE,
                         FALSE)).table

ExprHeap == <<ExprTable(<<"t">>, <<"a">>), ExprTable(<<"u">>, <<"c">>)>>

\* the engine after both tables were saved and the row (1) was inserted
\* into each: save created the implicit key, insert filled it
ExprEngine ==
    <<[name |-> <<"t">>, cols |-> <<(<<"a">>), ImplicitName>>,
       types |-> <<(<<"INT">>), (<<"INTEGER">>)>>, pk |-> ImplicitName,
       auto |-> ImplicitName, rows |-> <<(<<IntV(1), IntV(1)>>)>>],
      [name |-> <<"u">>, cols |-> <<(<<"c">>), ImplicitName>>,
       types |-> <<(<<"INT">>), (<<"INTEGER">>)>>, pk |-> ImplicitName,
       auto |-> ImplicitName, rows |-> <<(<<IntV(1), IntV(1)>>)>>]>>

\* the statement of the last of these inserts, and its values
ExprStatement ==
    <<"INSERT INTO", " ", "\"", "u", "\"", " ", "(", "\"", "c", "\"", ")",
      " ", "VALUES", " ", "(", "?", ")", ";">>

ExprValues == <<[key |-> NoName, val |-> IntV(1)]>>

\* the Column objects the caller can reach: t.a and u.c
ExprColumns ==
    {ColumnNode(1, <<"t">>, <<"a">>), ColumnNode(2, <<"u">>, <<"c">>)}

\* the literals the caller compares with
ExprLiterals == {LiteralNode(IntV(1)), LiteralNode(StrV(<<"x">>))}

CompareOps == {"EQUAL", "LESSTHAN"}

\* column <op> other: operator(identifier)(self, other)
Comparisons ==
    {FilterNode(op, <<col, other>>) :
        op \in CompareOps, col \in ExprColumns,
        other \in ExprLiterals \cup {ColumnNode(2, <<"u">>, <<"c">>)}}

RECURSIVE Nesting(_)
\* how deep Filters are nested in a node
Nesting(node) ==
    IF node.kind # "filter" THEN 0
    ELSE LET below == {Nesting(node.args[k]) : k \in 1..Len(node.args)}
         IN  1 + CHOOSE n \in below : \A m \in below : m <= n

\* the value update() assigns
UpdateValue == IntV(2)

\* the sequences that list every member of the set S once
Orders(S) ==
    {seq \in [1..Cardinality(S) -> S] :
        \A i, j \in 1..Cardinality(S) : seq[i] = seq[j] => i = j}

RECURSIVE AllDefaultColumns(_)
\* Selectable.select with no columns, the tables iterated in the order tids
AllDefaultColumns(tids) ==
    IF tids = <<>> THEN <<>>
    ELSE DefaultColumns(heap[Head(tids)].name,
                        Members(heap[Head(tids)].columns))
         \o AllDefaultColumns(Tail(tids))

TableNamesOf(tids) == [k \in 1..Len(tids) |-> heap[tids[k]].name]

\* Selectable.update may go on to the driver
UpdateAnyTables(tables) == Cardinality(tables) >= 1

UpdateAllowed(tables) == Cardinality(tables) = 1

InitExpr ==
    /\ sqlCall = NoCall
    /\ sqlOut = Ok(NoneV)
    /\ heap = ExprHeap
    /\ dbTables = <<[key |-> <<"t">>, item |-> 1],
                    [key |-> <<"u">>, item |-> 2]>>
    /\ engine = ExprEngine
    /\ transaction_depth = 0
    /\ last_statement = ExprStatement
    /\ last_values = ExprValues
    /\ calls = <<>>
    /\ raised = "none"
    /\ lastOp = Op("none", 0)
    /\ selection = NoSelection
    /\ paramstyle \in {"qmark", "named"}
    /\ flt = NoFilter
    /\ NewCursor
    /\ bodyError = "none"
    /\ result = <<>>

\* the caller builds one Filter and then issues statements on it
Building == lastOp.name \in {"none", "compare", "and", "not"}

\* the caller builds column <op> other
ExprCompare ==
    \E f \in Comparisons :
        /\ Building
        /\ flt' = f
        /\ lastOp' = Op("compare", 0)
        /\ raised' = "none"
        /\ calls' = <<>>
        /\ UNCHANGED <<objVars, engine, transaction_depth, last_statement,
                       last_values, selection, paramstyle, sqlVars, curVars, bodyError, result>>

\* filter & other: Filter.__and__ = operator('AND')
ExprAnd ==
    \E f \in Comparisons :
        /\ Building
        /\ flt.kind = "filter"
        /\ Nesting(flt) < MaxNesting
        /\ flt' = FilterNode("AND", <<flt, f>>)
        /\ lastOp' = Op("and", 0)
        /\ raised' = "none"
        /\ calls' = <<>>
        /\ UNCHANGED <<objVars, engine, transaction_depth, last_statement,
                       last_values, selection, paramstyle, sqlVars, curVars, bodyError, result>>

\* ~filter: Filter.__invert__ = operator('NOT', 1)
ExprNot ==
    /\ Building
    /\ flt.kind = "filter"
    /\ Nesting(flt) < MaxNesting
    /\ flt' = FilterNode("NOT", <<flt>>)
    /\ lastOp' = Op("not", 0)
    /\ raised' = "none"
    /\ calls' = <<>>
    /\ UNCHANGED <<objVars, engine, transaction_depth, last_statement,
                   last_values, selection, paramstyle, sqlVars, curVars, bodyError, result>>

\* filter.select(): the tables of the set are iterated in some order
ExprSelect ==
    \E tids \in Orders(flt.tables) :
        LET columns == AllDefaultColumns(tids)
            Selected(r) ==
                /\ SetDrv(r.d)
                /\ raised' = r.raised
                /\ selection' = IF r.raised = "none"
                                THEN [columns |-> columns, rows |-> r.ret]
                                ELSE selection
        IN  /\ flt.kind = "filter"
            /\ Selected(Select(Drv, TableNamesOf(tids), TRUE, flt, columns,
                               FALSE))
            /\ lastOp' = Op("select", 0)
            /\ IF raised' = "none"
               THEN /\ fetched' = 0
                    /\ yielded' = <<>>
                    /\ returned' = NoReturn
               ELSE UNCHANGED curVars
            /\ UNCHANGED <<objVars, paramstyle, flt, sqlVars, bodyError, result>>

\* filter.update(<cname>=UpdateValue)
ExprUpdate ==
    \E cname \in {<<"a">>, <<"c">>}, tids \in Orders(flt.tables) :
        LET Updated(r) ==
                /\ SetDrv(r.d)
                /\ raised' = r.raised
        IN  /\ flt.kind = "filter"
            /\ IF ~UpdateAllowed(flt.tables)
               THEN /\ raised' = "ValueError"
                    /\ calls' = <<>>
                    /\ UNCHANGED <<engine, transaction_depth,
                                   last_statement, last_values>>
               ELSE Updated(Update(Drv, paramstyle, heap[tids[1]].name,
                                   TRUE, flt, <<cname>>, <<UpdateValue>>))
            /\ lastOp' = Op("update", 0)
            /\ UNCHANGED <<objVars, selection, paramstyle, flt, sqlVars, curVars, bodyError, result>>

\* filter.delete()
ExprDelete ==
    \E tids \in Orders(flt.tables) :
        LET Deleted(r) ==
                /\ SetDrv(r.d)
                /\ raised' = r.raised
        IN  /\ flt.kind = "filter"
            /\ Deleted(Delete(Drv, TableNamesOf(tids), TRUE, flt))
            /\ lastOp' = Op("delete", 0)
            /\ UNCHANGED <<objVars, selection, paramstyle, flt, sqlVars, curVars, bodyError, result>>

\* table.update(<its column>=UpdateValue)
ExprTableUpdate ==
    \E tid \in 1..Len(heap) :
        TableUpdate(tid, <<heap[tid].columns[1].key>>, <<UpdateValue>>)

NextExpr ==
    \/ ExprCompare
    \/ ExprAnd
    \/ ExprNot
    \/ ExprSelect
    \/ ExprUpdate
    \/ ExprDelete
    \/ ExprTableUpdate

SpecExpr == InitExpr /\ [][NextExpr]_vars

----------------------------------------------------------------------------
(* C5: in every SELECT, UPDATE and DELETE statement the driver emits, no   *)
(* literal value of the caller, the literals of the WHERE criteria         *)
(* included, appears in the statement text; each is handed to the engine   *)
(* as a bound parameter.                                                   *)

RECURSIVE TreeLiterals(_)
\* the literal values anywhere in a node
TreeLiterals(node) ==
    IF node.kind = "literal" THEN {node.val}
    ELSE UNION {TreeLiterals(node.args[k]) : k \in 1..Len(node.args)}

\* `part` occurs in `text` as a run of consecutive atoms
Contains(text, part) ==
    \E k \in 0..(Len(text) - Len(part)) :
        SubSeq(text, k + 1, k + Len(part)) = part

Bound(v) == \E k \in 1..Len(last_values) : last_values[k].val = v

Emitted ==
    lastOp.name \in {"select", "update", "delete"} /\ Called("execute")

\* the literals of the criteria of the last operation: those of the Filter
\* it was issued on, none when it was issued on a Table
CriteriaLiterals == IF lastOp.tid = 0 THEN TreeLiterals(flt) ELSE {}

LiteralsAlwaysBound ==
    Emitted
    => \A v \in CriteriaLiterals
                \cup (IF lastOp.name = "update" THEN {UpdateValue} ELSE {}) :
            ~Contains(last_statement, PyStr(v)) /\ Bound(v)

\* C5 as the code has it: the values assigned by an UPDATE never appear in
\* the text and are bound through a placeholder of the parameter style,
\* and nothing else is bound; the literals of the WHERE criteria are
\* rendered into the text by literal() and are not bound.
SetValuesBoundCriteriaRendered ==
    Emitted
    => /\ [k \in 1..Len(last_values) |-> last_values[k].val]
            = (IF lastOp.name = "update" THEN <<UpdateValue>> ELSE <<>>)
       /\ lastOp.name = "update"
            => /\ ~Contains(last_statement, PyStr(UpdateValue))
               /\ \E cname \in {<<"a">>, <<"c">>} :
                    /\ Contains(last_statement,
                                Identifier(cname).s \o <<"=">>
                                \o Placeholder(paramstyle, <<cname>>, 1).s)
                    /\ paramstyle = "named" => last_values[1].key = cname
       /\ \A v \in CriteriaLiterals :
            Contains(last_statement, Literal(v).val.s) /\ ~Bound(v)

\* t.a was updated through a filter holding a string literal, named style
SetValuesBoundCriteriaRenderedWitness ==
    /\ lastOp = Op("update", 0)
    /\ raised = "none"
    /\ paramstyle = "named"
    /\ StrV(<<"x">>) \in TreeLiterals(flt)
    /\ Contains(last_statement, <<"'", "x", "'">>)
    /\ last_values = <<[key |-> <<"a">>, val |-> UpdateValue]>>

----------------------------------------------------------------------------
(* C6: the tables of a Filter are the Tables of all the Columns anywhere   *)
(* in its expression tree, however deeply the Filter is composed.          *)

FilterTablesComplete ==
    flt.kind = "filter" => flt.tables = TreeTables(flt.args)

----------------------------------------------------------------------------
(* C7: update() on a Selectable whose tables set holds more than one table *)
(* raises ValueError and sends no statement: last_statement, the           *)
(* transaction depth and the engine's rows stay as they were.              *)

TwoTableUpdateRejected ==
    [][(lastOp' = Op("update", 0) /\ Cardinality(flt.tables) > 1)
       => (/\ raised' = "ValueError"
           /\ calls' = <<>>
           /\ last_statement' = last_statement
           /\ last_values' = last_values
           /\ transaction_depth' = transaction_depth
           /\ engine' = engine)]_vars

TwoTableUpdateRejectedWitness ==
    /\ lastOp = Op("update", 0)
    /\ Cardinality(flt.tables) = 2
    /\ raised = "ValueError"
    /\ calls = <<>>
    /\ last_statement = ExprStatement

----------------------------------------------------------------------------
(* C8: DB.add_table(name), when a table of that name is already in         *)
(* DB.tables, raises TableAlreadyExists without contacting the driver and  *)
(* leaves the existing Table object in the collection.                     *)

AddTableDuplicateRejected ==
    [][(/\ lastOp'.name = "add_table"
        /\ Len(heap') = Len(heap) + 1
        /\ KeyIndex(dbTables, heap'[Len(heap')].name) # 0)
       => (/\ raised' = "TableAlreadyExists"
           /\ calls' = <<>>
           /\ dbTables' = dbTables)]_vars

----------------------------------------------------------------------------
(* C9: for a table with columns c1..cn and no declared primary key, save() *)
(* hands the driver the n columns followed by an implicit autoincrement    *)
(* primary key named __id__, and select() with no columns projects exactly *)
(* c1..cn, in order, and never __id__.                                     *)

ImplicitColumn ==
    [NewColumn(ImplicitName, "Integer", TRUE, TRUE) EXCEPT !.implicit = TRUE]

\* the text of SELECT <columns> FROM <table>; an empty list of columns
\* leaves no word behind
SelectText(tname, columns) ==
    LET words == [k \in 1..Len(columns) |->
                    CS(Identifier(tname).s \o <<".">>
                       \o Identifier(columns[k].name).s)]
    IN  <<"SELECT", " ">>
        \o (IF words = <<>> THEN <<>>
            ELSE StrJoin(<<", ">>, words) \o <<" ">>)
        \o <<"FROM", " ">> \o Identifier(tname).s \o <<";">>

\* the columns the caller added: save alone makes autoincrement columns
RECURSIVE CallerColumns(_)
CallerColumns(columns) ==
    IF columns = <<>> THEN <<>>
    ELSE (IF Head(columns).autoincrement THEN <<>> ELSE <<Head(columns)>>)
         \o CallerColumns(Tail(columns))

ImplicitKeyAddedAndHidden ==
    [][LET tid == lastOp'.tid
       IN  /\ (/\ lastOp'.name = "save"
               /\ calls' # <<>>
               /\ heap[tid].primarykey = NoName)
              => Members(heap'[tid].columns)
                    = Members(heap[tid].columns) \o <<ImplicitColumn>>
           /\ (/\ lastOp'.name = "select"
               /\ calls' # <<>>)
              => last_statement'
                    = SelectText(heap[tid].name,
                                 CallerColumns(Members(heap[tid].columns)))
      ]_vars

----------------------------------------------------------------------------
(* C10: save() on a Table with no columns raises NoColumnsError, sends no  *)
(* statement, and leaves the table with no columns and no primary key.     *)

EmptySaveRejected ==
    [][(/\ lastOp'.name = "save"
        /\ heap[lastOp'.tid].columns = <<>>)
       => (/\ raised' = "NoColumnsError"
           /\ calls' = <<>>
           /\ last_statement' = last_statement
           /\ engine' = engine
           /\ heap'[lastOp'.tid].columns = <<>>
           /\ heap'[lastOp'.tid].primarykey = NoName)]_vars

EmptySaveRejectedWitness ==
    /\ lastOp.name = "save"
    /\ raised = "NoColumnsError"
    /\ heap[lastOp.tid].columns = <<>>
    /\ calls = <<>>

----------------------------------------------------------------------------
(* The life of one table and its rows: save, insert, update, drop *)

MaxStored == 2          \* rows a table holds

\* the Table the caller defined: t with the columns a Integer and b Text,
\* and no primary key
RowsTable ==
    [name |-> <<"t">>,
     columns |-> <<[key |-> <<"a">>,
                    item |-> NewColumn(<<"a">>, "Integer", FALSE, FALSE)],
                   [key |-> <<"b">>,
                    item |-> NewColumn(<<"b">>, "Text", FALSE, FALSE)]>>,
     primarykey |-> NoName]

\* the keyword arguments of insert(): none, a alone, a and b
RowsInputs ==
    {[names |-> <<>>, vals |-> <<>>],
     [names |-> <<(<<"a">>)>>, vals |-> <<IntV(1)>>],
     [names |-> <<(<<"a">>), (<<"b">>)>>, vals |-> <<IntV(2), StrV(<<"x">>)>>]}

InitRows ==
    /\ sqlCall = NoCall
    /\ sqlOut = Ok(NoneV)
    /\ heap = <<RowsTable>>
    /\ dbTables = <<[key |-> <<"t">>, item |-> 1]>>
    /\ engine = <<>>
    /\ transaction_depth = 0
    /\ last_statement = <<>>
    /\ last_values = <<>>
    /\ calls = <<>>
    /\ raised = "none"
    /\ lastOp = Op("none", 0)
    /\ selection = NoSelection
    /\ paramstyle = "qmark"
    /\ flt = NoFilter
    /\ NewCursor
    /\ bodyError = "none"
    /\ result = <<>>

RowsAddTable == \E name \in TableNames : AddTable(name, NoName)

RowsSave == \E tid \in 1..Len(heap), force \in BOOLEAN : Save(tid, force)

RowsDrop == \E tid \in 1..Len(heap), ignore \in BOOLEAN : Drop(tid, ignore)

RowsInsert ==
    \E tid \in 1..Len(heap), v \in RowsInputs :
        /\ \A k \in 1..Len(engine) : Len(engine[k].rows) < MaxStored
        /\ TableInsert(tid, v.names, v.vals)

RowsUpdate ==
    \E tid \in 1..Len(heap) : TableUpdate(tid, <<(<<"a">>)>>, <<IntV(3)>>)

NextRows ==
    \/ RowsAddTable
    \/ RowsSave
    \/ RowsDrop
    \/ RowsInsert
    \/ RowsUpdate

SpecRows == InitRows /\ [][NextRows]_vars

----------------------------------------------------------------------------
(* C11: a drop() that returns leaves no member of db.tables under the      *)
(* table's name and no table of that name in the engine; the engine has    *)
(* none for as long as no save() creates one again; and while it has none, *)
(* every insert() on the Table object raises NoSuchTableError.             *)

Gone(eng, tid) == EngFind(eng, heap[tid].name) = 0

DroppedTableRejectsInsert ==
    [][/\ (lastOp'.name = "drop" /\ raised' = "none")
            => /\ KeyIndex(dbTables', heap[lastOp'.tid].name) = 0
               /\ Gone(engine', lastOp'.tid)
       /\ \A tid \in 1..Len(heap) :
            /\ (Gone(engine, tid) /\ lastOp'.name # "save")
                   => Gone(engine', tid)
            /\ (Gone(engine, tid) /\ lastOp' = Op("insert", tid))
                   => raised' = "NoSuchTableError"]_vars

----------------------------------------------------------------------------
(* C12: drop_table with ignore_absence true, for a name the engine has no  *)
(* table of, raises nothing and leaves the engine as it was (so a second   *)
(* drop changes nothing after the first); with ignore_absence false it     *)
(* raises NoSuchTableError, and the engine is as it was.                   *)

DropAbsentTable ==
    [][\A tname \in TxnTables, ignore \in BOOLEAN :
          (/\ EngFind(engine, tname) = 0
           /\ TxnStatement("drop_table", DropTable(Drv, tname, ignore)))
              => /\ engine' = engine
                 /\ raised' = IF ignore THEN "none" ELSE "NoSuchTableError"
      ]_vars

\* a drop_table of an absent table has raised NoSuchTableError, beside a
\* table that is still there
DropAbsentTableWitness ==
    /\ lastOp.name = "drop_table"
    /\ raised = "NoSuchTableError"
    /\ engine # <<>>

----------------------------------------------------------------------------
(* C13: create_table for a name the engine already has a table of raises   *)
(* TableAlreadyExists when force_create is false, raises nothing when it   *)
(* is true, and either way leaves the table and its rows as they were;     *)
(* DB.tables needs no entry of that name for this.                         *)

CreateExistingTable ==
    [][\A tname \in TxnTables, force \in BOOLEAN :
          (/\ EngFind(engine, tname) # 0
           /\ TxnStatement("create_table",
                           CreateTable(Drv, tname, TxnColumns, force)))
              => /\ engine' = engine
                 /\ raised' = IF force THEN "none" ELSE "TableAlreadyExists"
      ]_vars

\* create_table has raised TableAlreadyExists for a table that holds a row,
\* with no entry in DB.tables
CreateExistingTableWitness ==
    /\ lastOp.name = "create_table"
    /\ raised = "TableAlreadyExists"
    /\ dbTables = <<>>
    /\ \E k \in 1..Len(engine) : engine[k].rows # <<>>

----------------------------------------------------------------------------
(* class Selection (dibi/common.py) and the data types (dibi/datatype)     *)

DateV(s) == [ty |-> "date", i |-> 0, s |-> s, clean |-> FALSE]

DigitChars == {"0", "1", "2", "3", "4", "5", "6", "7", "8", "9"}

\* the text has the shape of "%Y-%m-%d" with padded fields
IsoDate(s) ==
    /\ Len(s) = 10
    /\ s[5] = "-"
    /\ s[8] = "-"
    /\ \A k \in {1, 2, 3, 4, 6, 7, 9, 10} : s[k] \in DigitChars

\* a datetime.datetime: s is its date and time to the second, written
\* "%Y-%m-%dT%H:%M:%S", and i its microsecond field
DateTimeV(s, micro) == [ty |-> "datetime", i |-> micro, s |-> s, clean |-> FALSE]

\* the value of a decimal digit
DigitValue(c) == IF c = "0" THEN 0 ELSE CHOOSE n \in 1..9 : Digit[n] = c

\* what %f reads from one to six digits: they are the leading digits of the
\* microsecond field
Microsecond(digits) ==
    LET Padded(k) == IF k <= Len(digits) THEN DigitValue(digits[k]) ELSE 0
    IN  Padded(1) * 100000 + Padded(2) * 10000 + Padded(3) * 1000
        + Padded(4) * 100 + Padded(5) * 10 + Padded(6)

\* the text has the shape of "%Y-%m-%dT%H:%M:%S.%f" with padded fields
IsoDateTime(s) ==
    /\ Len(s) \in 21..26
    /\ IsoDate(SubSeq(s, 1, 10))
    /\ s[11] = "T"
    /\ s[14] = ":"
    /\ s[17] = ":"
    /\ s[20] = "."
    /\ \A k \in {12, 13, 15, 16, 18, 19} \cup 21..Len(s) : s[k] \in DigitChars

\* datatype.deserialize(value): Text is str, Date is strptime(...).date(),
\* DateTime is strptime(...), Integer and the types that inherit DataType's
\* own return the value
Deserialize(datatype, v) ==
    CASE datatype = "Text" -> Ok(StrV(PyStr(v)))
      [] datatype = "Date" ->
            IF v.ty # "str" THEN Err("TypeError")
            ELSE IF IsoDate(v.s) THEN Ok(DateV(v.s))
            ELSE Err("ValueError")
      [] datatype = "DateTime" ->
            IF v.ty # "str" THEN Err("TypeError")
            ELSE IF IsoDateTime(v.s)
            THEN Ok(DateTimeV(SubSeq(v.s, 1, 19),
                              Microsecond(SubSeq(v.s, 21, Len(v.s)))))
            ELSE Err("ValueError")
      [] OTHER -> Ok(v)

\* a cursor that starts over once it has handed out its last row
FetchRestarting(rows, n) ==
    [has |-> rows # <<>>,
     at |-> IF rows = <<>> THEN 0 ELSE (n % Len(rows)) + 1]

\* next(self.cursor) after the cursor handed out n rows: whether there is a
\* row, and its place in the result
Fetch(rows, n) ==
    [has |-> n < Len(rows), at |-> IF n < Len(rows) THEN n + 1 ELSE 0]

\* a one() that looks at the first row of the result and moves nothing
OneFirstRow(rows, n) ==
    [called |-> TRUE, none |-> rows = <<>>,
     row |-> IF rows = <<>> THEN <<>> ELSE rows[1],
     fetched |-> n]

\* Selection.one(): the first row its iteration yields, None if it yields
\* none; and the rows the cursor has handed out after it
One(rows, n) ==
    LET Taken(f) ==
            [called |-> TRUE, none |-> ~f.has,
             row |-> IF f.has THEN rows[f.at] ELSE <<>>,
             fetched |-> IF f.has THEN f.at ELSE n]
    IN  Taken(Fetch(rows, n))

\* Table.select(*columns): the columns given, or else the default ones
TableSelect(tid, given) ==
    LET columns == IF given = <<>>
                   THEN DefaultColumns(heap[tid].name,
                                       Members(heap[tid].columns))
                   ELSE given
        Selected(r) ==
            /\ SetDrv(r.d)
            /\ raised' = r.raised
            /\ selection' = IF r.raised = "none"
                            THEN [columns |-> columns, rows |-> r.ret]
                            ELSE selection
            /\ IF r.raised = "none"
               THEN /\ fetched' = 0
                    /\ yielded' = <<>>
                    /\ returned' = NoReturn
               ELSE UNCHANGED curVars
            /\ lastOp' = Op("select", tid)
            /\ UNCHANGED <<heap, dbTables, paramstyle, flt, sqlVars,
                           bodyError, result>>
    IN  Selected(Select(Drv, <<heap[tid].name>>, FALSE, NoCriteria, columns,
                        FALSE))

\* one step of iterating the Selection, from any of its iterators: the next
\* row of the cursor is yielded as the cursor gave it, or the iteration ends
SelectionNext ==
    LET Stepped(f) ==
            IF f.has
            THEN /\ yielded' = Append(yielded, [at |-> f.at,
                                               row |-> selection.rows[f.at]])
                 /\ fetched' = f.at
                 /\ raised' = "none"
            ELSE /\ UNCHANGED <<yielded, fetched>>
                 /\ raised' = "StopIteration"
    IN  /\ Stepped(Fetch(selection.rows, fetched))
        /\ lastOp' = Op("next", 0)
        /\ calls' = <<>>
        /\ UNCHANGED <<objVars, engine, transaction_depth, last_statement,
                       last_values, selection, returned, paramstyle, flt,
                       sqlVars, bodyError, result>>

\* Selection.one()
SelectionOne ==
    LET Returned(r) ==
            /\ returned' = [called |-> r.called, none |-> r.none,
                            row |-> r.row]
            /\ fetched' = r.fetched
    IN  /\ Returned(One(selection.rows, fetched))
        /\ raised' = "none"
        /\ lastOp' = Op("one", 0)
        /\ calls' = <<>>
        /\ UNCHANGED <<objVars, engine, transaction_depth, last_statement,
                       last_values, selection, yielded, paramstyle, flt,
                       sqlVars, bodyError, result>>

----------------------------------------------------------------------------
(* Selections on a saved table t(a Integer, b Text, d Date) *)

IterTable ==
    [name |-> <<"t">>,
     columns |-> <<[key |-> <<"a">>,
                    item |-> NewColumn(<<"a">>, "Integer", FALSE, FALSE)],
                   [key |-> <<"b">>,
                    item |-> NewColumn(<<"b">>, "Text", FALSE, FALSE)],
                   [key |-> <<"d">>,
                    item |-> NewColumn(<<"d">>, "Date", FALSE, FALSE)],
                   [key |-> ImplicitName,
                    item |-> [name |-> ImplicitName, datatype |-> "Integer",
                              primarykey |-> TRUE, autoincrement |-> TRUE,
                              implicit |-> TRUE]]>>,
     primarykey |-> ImplicitName]

Day == <<"2", "0", "0", "0", "-", "0", "1", "-", "0", "1">>

\* what insert(a=1, b='x', d='2000-01-01') and insert(a=2) store
StoredRows ==
    {<<IntV(1), StrV(<<"x">>), StrV(Day)>>, <<IntV(2), NoneV, NoneV>>}

\* the tables of rows up to MaxStored long, each row with its row id
RECURSIVE RowSeqs(_)
RowSeqs(n) ==
    IF n = 0 THEN {<<>>}
    ELSE RowSeqs(n - 1)
         \cup {Append(rows, Append(r, IntV(Len(rows) + 1))) :
                 rows \in {q \in RowSeqs(n - 1) : Len(q) = n - 1},
                 r \in StoredRows}

\* the column lists handed to select(): none, and two of the caller's own
IterColumns ==
    {<<>>,
     <<[tname |-> <<"t">>, name |-> <<"d">>],
       [tname |-> <<"t">>, name |-> <<"a">>]>>,
     <<[tname |-> <<"t">>, name |-> <<"b">>]>>}

InitIter ==
    /\ sqlCall = NoCall
    /\ sqlOut = Ok(NoneV)
    /\ heap = <<IterTable>>
    /\ dbTables = <<[key |-> <<"t">>, item |-> 1]>>
    /\ \E rows \in RowSeqs(MaxStored) :
          engine = <<[name |-> <<"t">>,
                      cols |-> <<(<<"a">>), (<<"b">>), (<<"d">>),
                                 ImplicitName>>,
                      types |-> <<(<<"INT">>), (<<"TEXT">>), (<<"TEXT">>),
                                  (<<"INTEGER">>)>>,
                      pk |-> ImplicitName,
                      auto |-> ImplicitName, rows |-> rows]>>
    /\ transaction_depth = 0
    /\ last_statement = <<>>
    /\ last_values = <<>>
    /\ calls = <<>>
    /\ raised = "none"
    /\ lastOp = Op("none", 0)
    /\ selection = NoSelection
    /\ paramstyle = "qmark"
    /\ flt = NoFilter
    /\ NewCursor
    /\ bodyError = "none"
    /\ result = <<>>

IterSelect == \E given \in IterColumns : TableSelect(1, given)

\* iteration and one() need a Selection
IterNext == selection.columns # <<>> /\ SelectionNext

IterOne == selection.columns # <<>> /\ SelectionOne

\* the caller opens and leaves transaction() scopes around its reads
IterEnter == TxnEnter

IterExit == TxnExit("none")

NextIter ==
    \/ IterSelect
    \/ IterNext
    \/ IterOne
    \/ IterEnter
    \/ IterExit

SpecIter == InitIter /\ [][NextIter]_vars

----------------------------------------------------------------------------
(* C14: every row that iterating a Selection has yielded has one element   *)
(* for each requested column, in their order, and the i-th is the i-th     *)
(* column's datatype.deserialize applied to the value the engine gave.     *)

\* the datatype of the column the Selection asked for
ColumnType(column) ==
    LET tid == CHOOSE t \in 1..Len(heap) : heap[t].name = column.tname
        k == KeyIndex(heap[tid].columns, column.name)
    IN  heap[tid].columns[k].item.datatype

YieldedRowsDeserialized ==
    \A k \in 1..Len(yielded) :
        /\ Len(yielded[k].row) = Len(selection.columns)
        /\ \A i \in 1..Len(selection.columns) :
              LET native == selection.rows[yielded[k].at][i]
                  value == Deserialize(ColumnType(selection.columns[i]),
                                       native)
              IN  value.ok /\ yielded[k].row[i] = value.val

----------------------------------------------------------------------------
(* C15: over all the iterations of one Selection, the rows yielded are     *)
(* rows of the result taken at strictly increasing places, so each is      *)
(* yielded at most once and in result order; once the cursor has handed    *)
(* out the last row, no iteration yields anything.                         *)

InResultOrder ==
    \A k \in 1..Len(yielded) :
        /\ yielded[k].at \in 1..Len(selection.rows)
        /\ yielded[k].row = selection.rows[yielded[k].at]
        /\ \A j \in 1..(k - 1) : yielded[j].at < yielded[k].at

SelectionForwardOnly ==
    [][/\ InResultOrder'
       /\ (lastOp'.name = "next" /\ fetched = Len(selection.rows))
             => (yielded' = yielded /\ raised' = "StopIteration")]_vars

\* both rows of a result were yielded and a further iteration has ended
\* with none
SelectionForwardOnlyWitness ==
    /\ Len(selection.rows) = 2
    /\ Len(yielded) = 2
    /\ lastOp.name = "next"
    /\ raised = "StopIteration"

----------------------------------------------------------------------------
(* C16 as stated: every call of one() returns the first row of the query   *)
(* result, or None when the result is empty, and raises nothing.           *)

OneReturnsFirstRow ==
    lastOp.name = "one"
        => /\ raised = "none"
           /\ returned.none = (selection.rows = <<>>)
           /\ ~returned.none => returned.row = selection.rows[1]

(* C16, amended: one() raises nothing and returns the next row the         *)
(* Selection's cursor has not handed out yet, which it thereby hands out:  *)
(* the first row of the result on a Selection nothing was taken from, None *)
(* when no row is left.                                                    *)

OneReturnsNextRow ==
    [][lastOp'.name = "one"
          => /\ raised' = "none"
             /\ returned'.called
             /\ IF fetched < Len(selection.rows)
                THEN /\ ~returned'.none
                     /\ returned'.row = selection.rows[fetched + 1]
                     /\ fetched' = fetched + 1
                ELSE /\ returned'.none
                     /\ fetched' = fetched]_vars

\* a second one() has returned the second row, which differs from the first
OneReturnsNextRowWitness ==
    /\ lastOp.name = "one"
    /\ fetched = 2
    /\ yielded = <<>>
    /\ ~returned.none
    /\ returned.row = selection.rows[2]
    /\ selection.rows[1] # selection.rows[2]

----------------------------------------------------------------------------
(* Comparisons of a column with a literal, rendered by expression() *)

MaxNameLen == 2         \* longest table or column name

NameAtoms == {"a", "\"", ";"}

\* the names of 1 to MaxNameLen characters
Names == UNION {[1..n -> NameAtoms] : n \in 1..MaxNameLen}

RenderLiterals ==
    {NoneV, IntV(1), IntV(12), StrV(<<>>), StrV(<<"x">>), StrV(<<"'">>),
     StrV(<<"N", "U", "L", "L">>)}

\* the caller holds column == literal or column != literal
InitRender ==
    /\ sqlCall = NoCall
    /\ sqlOut = Ok(NoneV)
    /\ heap = <<>>
    /\ dbTables = <<>>
    /\ engine = <<>>
    /\ transaction_depth = 0
    /\ last_statement = <<>>
    /\ last_values = <<>>
    /\ calls = <<>>
    /\ raised = "none"
    /\ lastOp = Op("none", 0)
    /\ selection = NoSelection
    /\ paramstyle = "qmark"
    /\ \E op \in {"EQUAL", "NOTEQUAL"}, tname \in {<<"t">>}, cname \in Names,
          v \in RenderLiterals :
          flt = FilterNode(op, <<ColumnNode(1, tname, cname),
                                 LiteralNode(v)>>)
    /\ NewCursor
    /\ bodyError = "none"
    /\ result = <<>>

\* driver.expression(filter)
RenderExpression ==
    /\ lastOp.name = "none"
    /\ sqlOut' = Expression(flt)
    /\ lastOp' = Op("expression", 0)
    /\ UNCHANGED <<sqlCall, heap, dbTables, engine, transaction_depth,
                   last_statement, last_values, calls, raised, selection,
                   paramstyle, flt, curVars, bodyError, result>>

\* driver.expression(column), the left argument on its own
RenderColumn ==
    /\ lastOp.name = "none"
    /\ sqlOut' = Expression(flt.args[1])
    /\ lastOp' = Op("column", 0)
    /\ UNCHANGED <<sqlCall, heap, dbTables, engine, transaction_depth,
                   last_statement, last_values, calls, raised, selection,
                   paramstyle, flt, curVars, bodyError, result>>

\* driver.literal(value), the right argument on its own
RenderLiteral ==
    /\ lastOp.name = "none"
    /\ sqlOut' = Literal(flt.args[2].val)
    /\ lastOp' = Op("literal", 0)
    /\ UNCHANGED <<sqlCall, heap, dbTables, engine, transaction_depth,
                   last_statement, last_values, calls, raised, selection,
                   paramstyle, flt, curVars, bodyError, result>>

NextRender ==
    \/ RenderExpression
    \/ RenderColumn
    \/ RenderLiteral

SpecRender == InitRender /\ [][NextRender]_vars

----------------------------------------------------------------------------
(* C17: column == None renders as (<column> IS NULL) and column != None as *)
(* (<column> IS NOT NULL); with any literal other than None the rendering  *)
(* is (<column>=<literal>) and (<column>!=<literal>).                      *)

\* the text of a comparison: the column, the operator's sign, the literal
Compared(sign) ==
    <<"(">> \o Expression(flt.args[1]).val.s \o <<sign>>
            \o Literal(flt.args[2].val).val.s \o <<")">>

NoneComparedWithIs ==
    lastOp.name = "expression"
        => /\ sqlOut.ok
           /\ sqlOut.val.s =
                CASE flt.op = "EQUAL" /\ flt.args[2].val = NoneV ->
                        Compared(" IS ")
                  [] flt.op = "NOTEQUAL" /\ flt.args[2].val = NoneV ->
                        Compared(" IS NOT ")
                  [] flt.op = "EQUAL" /\ flt.args[2].val # NoneV ->
                        Compared("=")
                  [] flt.op = "NOTEQUAL" /\ flt.args[2].val # NoneV ->
                        Compared("!=")
           /\ flt.args[2].val = NoneV
                => /\ Literal(flt.args[2].val).val.s = <<"NULL">>
                   /\ \A k \in 1..Len(sqlOut.val.s) :
                         sqlOut.val.s[k] \notin {"=", "!="}

\* column != None was rendered with IS NOT
NoneComparedWithIsWitness ==
    /\ lastOp.name = "expression"
    /\ flt.op = "NOTEQUAL"
    /\ flt.args[2].val = NoneV
    /\ \E k \in 1..Len(sqlOut.val.s) : sqlOut.val.s[k] = " IS NOT "

----------------------------------------------------------------------------
(* A table whose name holds any characters: identifier(), save(), drop()   *)

NamedTable(name) ==
    [name |-> name,
     columns |-> <<[key |-> <<"a">>,
                    item |-> NewColumn(<<"a">>, "Integer", FALSE, FALSE)]>>,
     primarykey |-> NoName]

InitNames ==
    /\ sqlCall = NoCall
    /\ sqlOut = Ok(NoneV)
    /\ \E name \in Names :
          /\ heap = <<NamedTable(name)>>
          /\ dbTables = <<[key |-> name, item |-> 1]>>
    /\ engine = <<>>
    /\ transaction_depth = 0
    /\ last_statement = <<>>
    /\ last_values = <<>>
    /\ calls = <<>>
    /\ raised = "none"
    /\ lastOp = Op("none", 0)
    /\ selection = NoSelection
    /\ paramstyle = "qmark"
    /\ flt = NoFilter
    /\ NewCursor
    /\ bodyError = "none"
    /\ result = <<>>

\* driver.identifier(table.name)
NamesIdentifier ==
    /\ sqlOut' = Ok(Identifier(heap[1].name))
    /\ lastOp' = Op("identifier", 1)
    /\ raised' = "none"
    /\ calls' = <<>>
    /\ UNCHANGED <<sqlCall, heap, dbTables, engine, transaction_depth,
                   last_statement, last_values, selection, paramstyle, flt,
                   curVars, bodyError, result>>

NamesSave == \E force \in BOOLEAN : Save(1, force)

NamesDrop == \E ignore \in BOOLEAN : Drop(1, ignore)

NamesInsert ==
    /\ \A k \in 1..Len(engine) : Len(engine[k].rows) < MaxRows
    /\ TableInsert(1, <<(<<"a">>)>>, <<IntV(1)>>)

NextNames ==
    \/ NamesIdentifier
    \/ NamesSave
    \/ NamesDrop
    \/ NamesInsert

SpecNames == InitNames /\ [][NextNames]_vars

----------------------------------------------------------------------------
(* C18: identifier(s) is s between two quote characters with every quote   *)
(* character of s doubled: it starts and ends with the quote character,    *)
(* its interior holds quote characters only in pairs, un-doubling the      *)
(* interior gives s, and no other name renders to the same identifier.  A  *)
(* table saved under such a name is in the engine under exactly that name, *)
(* and a drop() of it raises nothing and removes it.                       *)

RECURSIVE PairsOnly(_, _)
\* every quote character of the text stands in a pair of two
PairsOnly(s, q) ==
    IF s = <<>> THEN TRUE
    ELSE IF s[1] = q
         THEN Len(s) >= 2 /\ s[2] = q /\ PairsOnly(SubSeq(s, 3, Len(s)), q)
    ELSE PairsOnly(Tail(s), q)

Rendered(name, text) ==
    LET q == identifier_quote.s[1]
        inner == SubSeq(text, 2, Len(text) - 1)
    IN  /\ Len(text) >= 2
        /\ text[1] = q
        /\ text[Len(text)] = q
        /\ PairsOnly(inner, q)
        /\ Undouble(inner, q) = name

IdentifierRoundTrip ==
    [][/\ lastOp'.name = "identifier"
            => /\ sqlOut'.ok
               /\ Rendered(heap[1].name, sqlOut'.val.s)
               /\ \A other \in Names \ {heap[1].name} :
                     Identifier(other) # sqlOut'.val
       /\ (lastOp'.name = "save" /\ raised' = "none")
            => /\ Len(engine') = 1
               /\ engine'[1].name = heap[1].name
       /\ (lastOp'.name = "drop" /\ engine # <<>>)
            => /\ raised' = "none"
               /\ engine' = <<>>]_vars

\* a table whose name holds the quote character was dropped by a DROP
\* TABLE without IF EXISTS, which only succeeds on a table that is there
IdentifierRoundTripWitness ==
    /\ lastOp.name = "drop"
    /\ raised = "none"
    /\ engine = <<>>
    /\ \E k \in 1..Len(heap[1].name) : heap[1].name[k] = "\""
    /\ \A k \in 1..Len(last_statement) : last_statement[k] # "IF EXISTS"

----------------------------------------------------------------------------
(* C19: update() on a Filter whose columns are all of one table, naming a  *)
(* column of that table, sets that column in exactly the rows of the table *)
(* that satisfy the filter and leaves every other row, column and table as *)
(* it was; update() on a Table sets the column in every row of the table.  *)

\* the catalog after the column `cname` of the table of object tid was set
\* to UpdateValue in the rows that pass the criteria
UpdatedWhere(tid, cname, hasCriteria, criteria) ==
    LET k == EngFind(engine, heap[tid].name)
        tab == engine[k]
        c == IndexIn(tab.cols, cname)
    IN  [engine EXCEPT ![k].rows =
            [r \in 1..Len(tab.rows) |->
                IF Passes(hasCriteria, criteria, <<tab>>, <<tab.rows[r]>>)
                THEN [tab.rows[r] EXCEPT ![c] = UpdateValue]
                ELSE tab.rows[r]]]

\* the table the step's update() names a column of: raised is not the
\* engine's complaint about an unknown column
OwnColumnNamed == raised' # "Exception"

UpdateChangesMatchingRows ==
    [][/\ (/\ lastOp' = Op("update", 0)
           /\ Cardinality(TreeTables(flt.args)) = 1
           /\ OwnColumnNamed)
            => LET tid == CHOOSE t \in TreeTables(flt.args) : TRUE
               IN  /\ raised' = "none"
                   /\ engine' = UpdatedWhere(tid, heap[tid].columns[1].key,
                                             TRUE, flt)
       /\ (lastOp'.name = "update" /\ lastOp'.tid # 0)
            => /\ raised' = "none"
               /\ engine' = UpdatedWhere(lastOp'.tid,
                                         heap[lastOp'.tid].columns[1].key,
                                         FALSE, NoCriteria)]_vars

----------------------------------------------------------------------------
(* C20: when something was raised inside the scope that the last operation *)
(* left (a caller's transaction() block, or the scope of execute() around  *)
(* a statement), an error reached the caller: the error handle_exception   *)
(* raised for it, or the original one when handle_exception returned.      *)

ScopeErrorReachesCaller ==
    (lastOp.name \notin {"none", "enter"} /\ bodyError # "none")
        => /\ raised # "none"
           /\ raised = IF HandleException(bodyError) # "none"
                       THEN HandleException(bodyError)
                       ELSE bodyError

\* the caller's own error left an outermost scope unchanged, after the
\* commit
ScopeErrorReachesCallerWitness ==
    /\ lastOp.name = "exit"
    /\ bodyError = UserError
    /\ raised = UserError
    /\ transaction_depth = 0

----------------------------------------------------------------------------
(* Errors with no translation                                              *)

\* SQLiteDriver.handle_exception, its last branch: the arguments of the
\* Exception raised for an sqlite3.Error that matched no message, built
\* from the driver d that made the statement
GenericErrorArgs(d, error) == [error |-> error, statement |-> d.stmt]

(* C21: when a native engine error with no translation was raised inside   *)
(* the scope the last operation left, the caller gets the generic error,   *)
(* and that error carries the last attempted statement and its parameter   *)
(* values.                                                                 *)
UntranslatedErrorCarriesStatementAndValues ==
    (lastOp.name \notin {"none", "enter"} /\ bodyError = ErrOther)
        => LET args == GenericErrorArgs(Drv, bodyError)
           IN  /\ raised = "Exception"
               /\ "statement" \in DOMAIN args
               /\ args.statement = last_statement
               /\ "values" \in DOMAIN args
               /\ args.values = last_values

----------------------------------------------------------------------------
(* C22: list_columns of a table that is not in the engine raises           *)
(* NoSuchTableError and yields nothing; list_columns of a table that is in *)
(* the engine yields one descriptor for each column the engine holds; and  *)
(* once save() has created a table declared with n columns and no primary  *)
(* key, list_columns yields n + 1 descriptors for it.                      *)

\* the descriptors list_columns yields for `name` in the state the step
\* leads to
ListedAfterwards(name) ==
    ListColumns([depth |-> transaction_depth', stmt |-> last_statement',
                 values |-> last_values', calls |-> <<>>,
                 eng |-> engine'], name).ret

ListColumnsOfSavedTable ==
    [][/\ \A name \in TableNames :
            lastOp' = Op("list_columns", 0)
                => IF EngFind(engine, name) = 0
                   THEN raised' = "NoSuchTableError" /\ result' = <<>>
                   ELSE /\ raised' = "none"
                        /\ [k \in 1..Len(result') |-> result'[k].name]
                                = engine[EngFind(engine, name)].cols
       /\ \A tid \in 1..Len(heap) :
            (/\ lastOp' = Op("save", tid)
             /\ raised' = "none"
             /\ EngFind(engine, heap[tid].name) = 0
             /\ heap[tid].primarykey = NoName)
                => Len(ListedAfterwards(heap[tid].name))
                        = Len(heap[tid].columns) + 1]_vars

----------------------------------------------------------------------------
(* The data types (dibi/datatype): serialize, and the round trip           *)

\* the six digits isoformat() writes for a microsecond field
SixDigits(n) ==
    [k \in 1..6 |-> LET d == (n \div (10 ^ (6 - k))) % 10
                    IN  IF d = 0 THEN "0" ELSE Digit[d]]

\* date.isoformat() and datetime.isoformat(): a datetime whose microsecond
\* field is 0 is written without the fraction
IsoFormat(v) ==
    IF v.ty = "datetime" /\ v.i # 0 THEN v.s \o <<".">> \o SixDigits(v.i)
    ELSE v.s

RECURSIVE DigitsValue(_)
\* the number a text of decimal digits denotes
DigitsValue(s) ==
    IF s = <<>> THEN 0
    ELSE 10 * DigitsValue(SubSeq(s, 1, Len(s) - 1)) + DigitValue(s[Len(s)])

\* int(v)
PyInt(v) ==
    CASE v.ty = "int" -> Ok(v)
      [] v.ty = "str" ->
            IF v.s # <<>> /\ \A k \in 1..Len(v.s) : v.s[k] \in DigitChars
            THEN Ok(IntV(DigitsValue(v.s)))
            ELSE Err("ValueError")
      [] OTHER -> Err("TypeError")

\* datatype.serialize(value): Text is str, Integer is int, Date and
\* DateTime are value.isoformat(), Float and Blob inherit DataType's own
Serialize(datatype, v) ==
    CASE datatype = "Text" -> Ok(StrV(PyStr(v)))
      [] datatype = "Integer" -> PyInt(v)
      [] datatype \in {"Date", "DateTime"} ->
            IF v.ty \in {"date", "datetime"} THEN Ok(StrV(IsoFormat(v)))
            ELSE Err("AttributeError")
      [] OTHER -> Ok(v)

MaxInt == 12            \* largest Integer value serialized

Moment == Day \o <<"T", "1", "2", ":", "3", "0", ":", "0", "0">>

Midnight == Day \o <<"T", "0", "0", ":", "0", "0", ":", "0", "0">>

\* the values of each type's own Python type
TypeValues(datatype) ==
    CASE datatype = "Integer" -> {IntV(n) : n \in 0..MaxInt}
      [] datatype = "Text" ->
            {StrV(<<>>), StrV(<<"x">>), StrV(<<"1", "2">>), StrV(Day)}
      [] datatype = "Float" -> {IntV(n) : n \in 0..3}
      [] datatype = "Blob" -> {StrV(<<>>), StrV(<<"x">>), StrV(<<"'">>)}
      [] datatype = "Date" ->
            {DateV(Day),
             DateV(<<"1", "9", "9", "9", "-", "1", "2", "-", "3", "1">>)}
      [] datatype = "DateTime" ->
            {DateTimeV(s, micro) : s \in {Moment, Midnight},
                                   micro \in {0, 1, 500000, 999999}}

DataTypes == {"Integer", "Text", "Float", "Blob", "Date", "DateTime"}

\* the caller holds a column of one of the types and a value of that type
InitTypes ==
    /\ sqlCall = NoCall
    /\ sqlOut = Ok(NoneV)
    /\ \E datatype \in DataTypes :
          \E v \in TypeValues(datatype) :
             /\ heap = <<AddColumnTo(NewTable(<<"t">>, NoName), <<"a">>,
                                     datatype, FALSE, FALSE)>>
             /\ flt = FilterNode("EQUAL", <<ColumnNode(1, <<"t">>, <<"a">>),
                                            LiteralNode(v)>>)
    /\ dbTables = <<[key |-> <<"t">>, item |-> 1]>>
    /\ engine = <<>>
    /\ transaction_depth = 0
    /\ last_statement = <<>>
    /\ last_values = <<>>
    /\ calls = <<>>
    /\ raised = "none"
    /\ lastOp = Op("none", 0)
    /\ selection = NoSelection
    /\ paramstyle = "qmark"
    /\ NewCursor
    /\ bodyError = "none"
    /\ result = <<>>

\* the datatype of the column the caller holds, and the value
HeldType == heap[1].columns[1].item.datatype

HeldValue == flt.args[2].val

\* column.datatype.serialize(value)
TypeSerialize ==
    /\ lastOp.name = "none"
    /\ sqlOut' = Serialize(HeldType, HeldValue)
    /\ lastOp' = Op("serialize", 0)
    /\ UNCHANGED <<sqlCall, heap, dbTables, engine, transaction_depth,
                   last_statement, last_values, calls, raised, selection,
                   paramstyle, flt, curVars, bodyError, result>>

\* column.datatype.deserialize(serialized)
TypeDeserialize ==
    /\ lastOp.name = "serialize"
    /\ sqlOut.ok
    /\ sqlOut' = Deserialize(HeldType, sqlOut.val)
    /\ lastOp' = Op("deserialize", 0)
    /\ UNCHANGED <<sqlCall, heap, dbTables, engine, transaction_depth,
                   last_statement, last_values, calls, raised, selection,
                   paramstyle, flt, curVars, bodyError, result>>

NextTypes ==
    \/ TypeSerialize
    \/ TypeDeserialize

SpecTypes == InitTypes /\ [][NextTypes]_vars

(* C23: serializing a value of a type's own kind succeeds, and             *)
(* deserializing what serialize returned gives the value back.             *)
SerializeRoundTrip ==
    /\ lastOp.name = "serialize" => sqlOut.ok
    /\ lastOp.name = "deserialize" => sqlOut = Ok(HeldValue)

----------------------------------------------------------------------------
(* C24: select(), each step of iterating the Selection (select_all() is    *)
(* select() iterated to its end) and one() leave every table and row of    *)
(* the engine as they were, leave transaction_depth as it was, and call    *)
(* neither commit() nor rollback() on the connection.                      *)
ReadsChangeNothing ==
    [][lastOp'.name \in {"select", "next", "one"}
        => /\ engine' = engine
           /\ transaction_depth' = transaction_depth
           /\ \A k \in 1..Len(calls') :
                 calls'[k] \notin {"commit", "rollback"}]_vars

\* a select made inside an open scope, and a row taken from it there
ReadsChangeNothingWitness ==
    /\ lastOp.name = "one"
    /\ returned.called /\ ~returned.none
    /\ transaction_depth > 0
    /\ last_statement # <<>>

----------------------------------------------------------------------------
(* One Table on which columns are declared, with and without the primary   *)
(* key flag, before and after it is saved                                  *)

DeclaredNames == {<<"a">>, ImplicitName}

\* Table(db, 't') or Table(db, 't', primarykey='k')
InitColumns ==
    /\ sqlCall = NoCall
    /\ sqlOut = Ok(NoneV)
    /\ \E primarykey \in {NoName, <<"k">>} :
          heap = <<NewTable(<<"t">>, primarykey)>>
    /\ dbTables = <<[key |-> <<"t">>, item |-> 1]>>
    /\ engine = <<>>
    /\ transaction_depth = 0
    /\ last_statement = <<>>
    /\ last_values = <<>>
    /\ calls = <<>>
    /\ raised = "none"
    /\ lastOp = Op("none", 0)
    /\ selection = NoSelection
    /\ paramstyle = "qmark"
    /\ flt = NoFilter
    /\ NewCursor
    /\ bodyError = "none"
    /\ result = <<>>

ColumnsAddColumn ==
    \E name \in DeclaredNames, primarykey \in BOOLEAN :
        AddColumn(1, name, "Integer", primarykey)

ColumnsSave == \E force \in BOOLEAN : Save(1, force)

NextColumns ==
    \/ ColumnsAddColumn
    \/ ColumnsSave

SpecColumns == InitColumns /\ [][NextColumns]_vars

\* the names of the columns of the Table, in iteration order
ColumnKeys(table) == [k \in 1..Len(table.columns) |-> table.columns[k].key]

(* C25: at every step the column names of the table stay unique, each      *)
(* column is stored under its own name, and the names that were there keep *)
(* their places with at most one new name after them; an add_column with a *)
(* name already present returns the Column that was there and leaves the   *)
(* collection as it was, one with a new name returns the Column it put at  *)
(* the end.                                                                *)
AddColumnKeepsFirst ==
    [][LET old == heap[1].columns
           new == heap'[1].columns
       IN  /\ \A i, j \in 1..Len(new) : new[i].key = new[j].key => i = j
           /\ \A i \in 1..Len(new) : new[i].item.name = new[i].key
           /\ Len(new) \in {Len(old), Len(old) + 1}
           /\ SubSeq(ColumnKeys(heap'[1]), 1, Len(old)) = ColumnKeys(heap[1])
           /\ lastOp' = Op("add_column", 1)
                => /\ Len(result') = 1
                   /\ IF KeyIndex(old, result'[1].name) # 0
                      THEN /\ new = old
                           /\ result'[1]
                                = old[KeyIndex(old, result'[1].name)].item
                      ELSE new = Append(old, [key |-> result'[1].name,
                                              item |-> result'[1]])]_vars

\* the column a was declared twice, the second time as a primary key: the
\* Column returned is the first, which is not one
AddColumnKeepsFirstWitness ==
    /\ lastOp = Op("add_column", 1)
    /\ result = <<NewColumn(<<"a">>, "Integer", FALSE, FALSE)>>
    /\ heap[1].primarykey = <<"a">>
    /\ Len(heap[1].columns) = 2

----------------------------------------------------------------------------
(* db.tables used as a Collection: Table objects, some of the same name,   *)
(* are added to it, discarded and removed from it, and deleted by name     *)

CollNames == <<(<<"t">>), (<<"t">>), (<<"u">>), (<<"u">>), (<<"v">>)>>

InitColl ==
    /\ sqlCall = NoCall
    /\ sqlOut = Ok(NoneV)
    /\ heap = [k \in 1..Len(CollNames) |-> NewTable(CollNames[k], NoName)]
    /\ dbTables = <<>>
    /\ engine = <<>>
    /\ transaction_depth = 0
    /\ last_statement = <<>>
    /\ last_values = <<>>
    /\ calls = <<>>
    /\ raised = "none"
    /\ lastOp = Op("none", 0)
    /\ selection = NoSelection
    /\ paramstyle = "qmark"
    /\ flt = NoFilter
    /\ NewCursor
    /\ bodyError = "none"
    /\ result = <<>>

\* what no operation on the collection touches
CollUnchanged ==
    UNCHANGED <<heap, engine, transaction_depth, last_statement, last_values,
                calls, selection, paramstyle, flt, sqlVars, curVars,
                bodyError>>

\* db.tables.add(table, replace)
CollAdd(tid, replace) ==
    LET Added(r) ==
            /\ dbTables' = r.items
            /\ result' = <<r.ret>>
    IN  /\ Added(CollectionAdd(dbTables, heap[tid].name, tid, replace))
        /\ raised' = "none"
        /\ lastOp' = Op("add", tid)
        /\ CollUnchanged

\* db.tables.discard(table)
CollDiscard(tid) ==
    /\ dbTables' = CollectionDiscard(dbTables, heap[tid].name)
    /\ result' = <<>>
    /\ raised' = "none"
    /\ lastOp' = Op("discard", tid)
    /\ CollUnchanged

\* db.tables.remove(table)
CollRemove(tid) ==
    LET Removed(r) ==
            /\ dbTables' = r.items
            /\ raised' = r.raised
    IN  /\ Removed(CollectionRemove(dbTables, heap[tid].name))
        /\ result' = <<>>
        /\ lastOp' = Op("remove", tid)
        /\ CollUnchanged

\* del db.tables[name], with the name of the table object tid
CollDel(tid) ==
    LET Removed(r) ==
            /\ dbTables' = r.items
            /\ raised' = r.raised
    IN  /\ Removed(CollectionRemove(dbTables, heap[tid].name))
        /\ result' = <<>>
        /\ lastOp' = Op("del", tid)
        /\ CollUnchanged

CollAddAny ==
    \E tid \in 1..Len(heap), replace \in BOOLEAN : CollAdd(tid, replace)

CollDiscardAny == \E tid \in 1..Len(heap) : CollDiscard(tid)

CollRemoveAny == \E tid \in 1..Len(heap) : CollRemove(tid)

CollDelAny == \E tid \in 1..Len(heap) : CollDel(tid)

NextColl ==
    \/ CollAddAny
    \/ CollDiscardAny
    \/ CollRemoveAny
    \/ CollDelAny

SpecColl == InitColl /\ [][NextColl]_vars

\* the member stored under the key of the object tid, 0 when there is none
MemberFor(items, tid) ==
    IF KeyIndex(items, heap[tid].name) = 0 THEN 0
    ELSE items[KeyIndex(items, heap[tid].name)].item

\* at most one member for each key, each under the key its key function
\* gives
OneMemberPerKey(items) ==
    /\ \A i, j \in 1..Len(items) : items[i].key = items[j].key => i = j
    /\ \A i \in 1..Len(items) : items[i].key = heap[items[i].item].name

(* C26: add(item, replace) makes the item the member under its key when    *)
(* replace is true or the key had no member, and otherwise leaves the      *)
(* collection as it was; either way it returns the member found under the  *)
(* key afterwards.  After every add, discard, remove and del the           *)
(* collection has at most one member per key, each under the key of the    *)
(* member.  discard of an absent item changes nothing and raises nothing;  *)
(* remove of an absent item raises KeyError.                               *)
CollectionKeepsOneMemberPerKey ==
    [][/\ OneMemberPerKey(dbTables')
       /\ \A tid \in 1..Len(heap), replace \in BOOLEAN :
            CollAdd(tid, replace)
                => /\ IF replace \/ MemberFor(dbTables, tid) = 0
                      THEN MemberFor(dbTables', tid) = tid
                      ELSE dbTables' = dbTables
                   /\ result' = <<MemberFor(dbTables', tid)>>
       /\ \A tid \in 1..Len(heap) :
            /\ (lastOp' = Op("discard", tid) /\ MemberFor(dbTables, tid) = 0)
                    => (dbTables' = dbTables /\ raised' = "none")
            /\ (lastOp' = Op("discard", tid) /\ MemberFor(dbTables, tid) # 0)
                    => (MemberFor(dbTables', tid) = 0 /\ raised' = "none")
            /\ (lastOp' = Op("remove", tid) /\ MemberFor(dbTables, tid) = 0)
                    => (dbTables' = dbTables /\ raised' = "KeyError")
            /\ (lastOp' = Op("remove", tid) /\ MemberFor(dbTables, tid) # 0)
                    => (MemberFor(dbTables', tid) = 0 /\ raised' = "none")]_vars

\* an absent table was removed while the collection held the other name
CollectionKeepsOneMemberPerKeyWitness ==
    /\ lastOp.name = "remove"
    /\ raised = "KeyError"
    /\ MemberFor(dbTables, lastOp.tid) = 0
    /\ Len(dbTables) = 1

----------------------------------------------------------------------------
(* C27: construct_statement raises TypeError when one of its non-empty     *)
(* words is not a CleanSQL; otherwise it returns the text of the non-empty *)
(* words in the order given, one space between each two of them, and a     *)
(* ";" at the end.  Words that are None or empty add nothing.              *)

RECURSIVE Spaced(_)
\* the texts of the words with one space between each two
Spaced(words) ==
    IF words = <<>> THEN <<>>
    ELSE IF Len(words) = 1 THEN PyStr(words[1])
    ELSE PyStr(words[1]) \o <<" ">> \o Spaced(Tail(words))

\* the words that are neither None nor empty
NonEmptyWords(words) ==
    SelectSeq(words, LAMBDA w : w.ty # "none" /\ PyStr(w) # <<>>)

StatementOfNonEmptyWords ==
    sqlCall.op = "construct_statement"
        => IF \E k \in 1..Len(NonEmptyWords(sqlCall.args)) :
                 ~IsClean(NonEmptyWords(sqlCall.args)[k])
           THEN ~sqlOut.ok /\ sqlOut.err = "TypeError"
           ELSE sqlOut = Ok(StrV(Spaced(NonEmptyWords(sqlCall.args))
                                 \o <<";">>))

\* an empty word came before a clean one: the statement starts with the
\* clean word
StatementOfNonEmptyWordsWitness ==
    /\ sqlCall.op = "construct_statement"
    /\ sqlCall.args = <<CS(<<>>), CS(<<"a">>)>>
    /\ sqlOut = Ok(StrV(<<"a", ";">>))

----------------------------------------------------------------------------
(* C28: transaction_depth is 0 before the driver was used and is never     *)
(* negative; opening a transaction() scope raises it by one, leaving a     *)
(* scope, normally or by an error, lowers it by one, and a statement       *)
(* method leaves it where it was: so it counts the scopes the caller has   *)
(* open, comes back to its value at entry when a scope is left, and is 0   *)
(* when none is open.                                                      *)
DepthCountsOpenScopes ==
    [][/\ lastOp.name = "none" => transaction_depth = 0
       /\ transaction_depth' >= 0
       /\ lastOp'.name = "enter"
             => transaction_depth' = transaction_depth + 1
       /\ lastOp'.name = "exit"
             => transaction_depth' = transaction_depth - 1
       /\ lastOp'.name \notin {"enter", "exit"}
             => transaction_depth' = transaction_depth]_vars

\* an inner scope was left by an error and the outer one is still open
DepthCountsOpenScopesWitness ==
    /\ lastOp.name = "exit"
    /\ bodyError # "none"
    /\ raised # "none"
    /\ transaction_depth = 1

----------------------------------------------------------------------------
(* C29: whatever add_column and save() calls were made, at most one column *)
(* of the table is implicit, it is named __id__, and Table.primarykey is   *)
(* unset or names one column of the table.  A save() of a table whose      *)
(* primary key is set changes nothing in the table, and every save() that  *)
(* found columns leaves the primary key set: so a table declared with a    *)
(* primary key keeps its declared columns, and a second save() adds none.  *)

ImplicitColumns(table) ==
    {k \in 1..Len(table.columns) : table.columns[k].item.implicit}

SaveInjectsKeyOnce ==
    [][/\ Cardinality(ImplicitColumns(heap'[1])) <= 1
       /\ \A k \in ImplicitColumns(heap'[1]) :
             heap'[1].columns[k].key = ImplicitName
       /\ heap'[1].primarykey # NoName
             => KeyIndex(heap'[1].columns, heap'[1].primarykey) # 0
       /\ (lastOp' = Op("save", 1) /\ heap[1].primarykey # NoName)
             => heap'[1] = heap[1]
       /\ (lastOp' = Op("save", 1) /\ heap[1].columns # <<>>)
             => heap'[1].primarykey # NoName
       /\ (lastOp' = Op("save", 1) /\ heap[1].columns = <<>>)
             => (heap'[1] = heap[1] /\ raised' = "NoColumnsError")]_vars

\* the table declared with the primary key k and the column a was saved a
\* second time: the engine refused, and the table still has just the two
SaveInjectsKeyOnceWitness ==
    /\ lastOp = Op("save", 1)
    /\ raised = "TableAlreadyExists"
    /\ heap[1].primarykey = <<"k">>
    /\ ColumnKeys(heap[1]) = <<(<<"k">>), (<<"a">>)>>
    /\ ImplicitColumns(heap[1]) = {}

----------------------------------------------------------------------------
(* C30: a drop() that raised leaves db.tables as it was, so the table is   *)
(* still a member; a drop() takes the table's name out of db.tables only   *)
(* when the driver's drop_table returned without an error.                 *)
FailedDropKeepsTable ==
    [][\A tid \in 1..Len(heap) :
          lastOp' = Op("drop", tid)
            => IF raised' # "none"
               THEN dbTables' = dbTables
               ELSE /\ KeyIndex(dbTables', heap[tid].name) = 0
                    /\ "execute" \in {calls'[k] : k \in 1..Len(calls')}]_vars

\* drop(ignore_absence=False) of a table the engine does not have has
\* raised, and the table is still in db.tables
FailedDropKeepsTableWitness ==
    /\ lastOp.name = "drop"
    /\ raised = "NoSuchTableError"
    /\ MemberFor(dbTables, lastOp.tid) = lastOp.tid

====
